---- MODULE Spec2Model ----
(***************************************************************************)
(* Verification model of SafeMPC/mpc-service: the authorisation gate       *)
(* (checkGuardianPolicy, VerifyPasskeySignature), the coordinator's        *)
(* signing and DKG orchestration (ThresholdSign, ExecuteDKG, ReportResult, *)
(* session cancel) and non-hardened child derivation of key shares        *)
(* (parseDerivationPath, computeIL, DeriveLocalPartySaveData,              *)
(* DeriveEdDSALocalPartySaveData).                                         *)
(***************************************************************************)
EXTENDS Integers, Sequences, FiniteSets, TLC

VARIABLES
    gateReq,      \* input of checkGuardianPolicy: store contents, lookup outcomes, StartSignRequest
    gateOut,      \* result of checkGuardianPolicy ("none" before the call)
    gateEvals,    \* how many times the request has been checked
    pkIn,         \* input of VerifyPasskeySignature
    pkOut,        \* result of VerifyPasskeySignature ("none" before the call)
    dvIn,         \* input of a derivation: the shared polynomial, the local party, chain code, path
    dvOut,        \* result of the derivation (DerivePending before the call)
    dvRefs,       \* the objects the returned bundle points to and those the call wrote to
    sessions,     \* the session store: session id -> stored session record
    signPc,       \* position of the ThresholdSign call
    signReq,      \* the SignRequest of the call
    signLocal,    \* locals of ThresholdSign: its signingSession snapshot, participatingNodes, signatureHex
    startResp,    \* per node: outcome of the StartSign RPC ("none" = not sent)
    signRet,      \* what ThresholdSign returned
    reported,     \* the (session, node) pairs that have called ReportResult
    dkgPc,        \* position of the ExecuteDKG call
    dkgReq,       \* the CreateKeyRequest of the call
    dkgLocal,     \* locals of ExecuteDKG: nodeIDs, whether StartDKG was sent
    dkgRet,       \* what ExecuteDKG returned
    dkgRuns,      \* number of ExecuteDKG calls made for the key
    dkgOk,        \* participants that have reported DKG success for the key
    walletPc,     \* position of the wallet sign handler
    walletReq,    \* its request: wallet id, message_hex, the mobile node id of the token
    walletLocal,  \* its locals: the discovered nodes and the loop index
    walletStart,  \* per node: outcome of the handler's StartSign RPC ("none" = not sent)
    walletRet,    \* the HTTP status the handler returned (0 = none yet)
    shareStore,   \* per host: the participants whose key share its KeyShareStorage holds
    shareWrites,  \* per participant: how many times its share has been written anywhere
    backupDb,     \* per participant: number of server-held backup shares of its MPC share
    recoverResp,  \* the last answer of RecoverMPCShare
    inbox,        \* per node: the relay requests its signer service has received, in order
    rpcLog,       \* the RelayProtocolMessage RPCs made, as pairs <<calling node, target node>>
    wal,          \* per session: the round events in the StateStore's in-memory WAL map
    walSequences, \* per session: the last WAL sequence number handed out (in memory)
    roundState,   \* per session: the round the running process is in
    roundProgress,\* per session: CurrentRound as saved to PG and Redis
    acked,        \* per session: how many advances have been acknowledged so far
    crashes,      \* how often the process has crashed and recovered
    registered,   \* ServiceRegistry.registered
    backend,      \* the service ids registered in the discovery backend
    regLast,      \* the last registry call: what it was and what it did
    regCalls,     \* how many registry calls have been made
    wlbServices,  \* WeightedLoadBalancer.services
    wlbExpanded,  \* WeightedLoadBalancer.expanded
    wlbNextIndex, \* WeightedLoadBalancer.nextIndex
    wlbSelected,  \* what Select has returned since the last UpdateServices, in order
    conns,        \* GRPCClient.conns: node id -> connection (NilClient: no entry)
    signerClients, \* GRPCClient.signerClients: node id -> client (NilClient: no entry)
    liveConns,    \* the connections that were dialled and not closed
    nextConn,     \* the next connection grpc.DialContext returns
    connPc,       \* where each goroutine is in its call
    connCall,     \* the call each goroutine is in: [op, nodeID]
    connClient,   \* the client each goroutine holds in its local variable
    rpcClients,   \* the clients an RPC has been invoked on
    rrServices,   \* RoundRobinLoadBalancer.services
    rrIndex,      \* RoundRobinLoadBalancer.index
    rrLast,       \* the last call on the balancer: [op, services, result]
    vfReq,        \* the VerifyRequest given to Service.Verify
    vfOut,        \* what Service.Verify returned: [called, err, Valid]
    ipKey,        \* a key's [Algorithm, Curve] and the configured default protocol
    ipDkg,        \* Protocol of the key's DKG session
    ipSign,       \* the protocol Service.ThresholdSign inferred for the key
    ipWallet      \* the protocol the wallet sign handler inferred for the key

authVars == <<gateReq, gateOut, gateEvals, pkIn, pkOut>>
deriveVars == <<dvIn, dvOut, dvRefs>>
signVars == <<signPc, signReq, signLocal, startResp, signRet>>
dkgVars == <<dkgPc, dkgReq, dkgLocal, dkgRet, dkgRuns, dkgOk>>
walletVars == <<walletPc, walletReq, walletLocal, walletStart, walletRet>>
sessionVars == <<sessions, signVars, reported, dkgVars, walletVars>>
shareVars == <<shareStore, shareWrites, backupDb, recoverResp>>
routerVars == <<inbox, rpcLog>>
walVars == <<wal, walSequences, roundState, roundProgress, acked, crashes>>
registryVars == <<registered, backend, regLast, regCalls>>
weightedVars == <<wlbServices, wlbExpanded, wlbNextIndex, wlbSelected>>
connVars == <<conns, signerClients, liveConns, nextConn, connPc, connCall, connClient, rpcClients>>
roundRobinVars == <<rrServices, rrIndex, rrLast>>
verifyVars == <<vfReq, vfOut>>
protocolVars == <<ipKey, ipDkg, ipSign, ipWallet>>
restVars == <<registryVars, weightedVars, connVars, roundRobinVars, verifyVars, protocolVars>>
auxVars == <<shareVars, routerVars, walVars, restVars>>
vars == <<gateReq, gateOut, gateEvals, pkIn, pkOut, dvIn, dvOut, dvRefs, sessions, signPc, signReq, signLocal,
          startResp, signRet, reported, dkgPc, dkgReq, dkgLocal, dkgRet, dkgRuns, dkgOk,
          walletPc, walletReq, walletLocal, walletStart, walletRet,
          shareStore, shareWrites, backupDb, recoverResp, inbox, rpcLog,
          wal, walSequences, roundState, roundProgress, acked, crashes,
          registered, backend, regLast, regCalls,
          wlbServices, wlbExpanded, wlbNextIndex, wlbSelected,
          conns, signerClients, liveConns, nextConn, connPc, connCall, connClient, rpcClients,
          rrServices, rrIndex, rrLast, vfReq, vfOut, ipKey, ipDkg, ipSign, ipWallet>>

(***************************************************************************)
(* Bounds                                                                  *)
(***************************************************************************)
MaxTokens == 3
MaxMinSignatures == 2
MaxPathLen == 2
NumParties == 3
MaxDkgRuns == 2
MaxShareWrites == 2
MaxRelayed == 3
MaxAdvances == 2
MaxCrashes == 1
MaxGateEvals == 2
MaxRegistryCalls == 6
MaxSelects == 6
MaxDials == 2
MaxServices == 3

Range(s) == {s[i] : i \in DOMAIN s}

SeqsUpTo(S, n) == UNION {[1..k -> S] : k \in 0..n}

(***************************************************************************)
(* Authorisation gate: GRPCServer.checkGuardianPolicy                      *)
(***************************************************************************)

\* Public keys are hex strings.  "ED1" is the upper-case spelling of "ed1".
\* ed*: 32-byte Ed25519 keys (64 hex digits); secpU: 65-byte uncompressed
\* secp256k1 key (130 hex digits); secpC: 33-byte compressed key (66 digits).

\* strings.ToLower on a hex string
ToLower(s) == IF s = "ED1" THEN "ed1" ELSE s

\* len(pubKeyHex)
HexLen(s) == CASE s \in {"ed1", "ED1", "ed2", "ed3"} -> 64
               [] s = "secpU" -> 130
               [] s = "secpC" -> 66

Msgs == {"m1", "m2"}

\* hex.DecodeString on the MessageHex values of the model
HexDecode(h) == CASE h = "6d31" -> [ok |-> TRUE, bytes |-> "m1"]
                  [] h = "6d32" -> [ok |-> TRUE, bytes |-> "m2"]
                  [] h = "" -> [ok |-> TRUE, bytes |-> ""]
                  [] OTHER -> [ok |-> FALSE, bytes |-> ""]

\* A signature is either malformed (wrong length) or was produced by the
\* private key of `by` (a lower-case key name) over message `msg`.
BadSig == [by |-> "nobody", msg |-> "", wellFormed |-> FALSE]

\* verifyEd25519: key decodes to 32 bytes, signature is 64 bytes, ed25519.Verify
verifyEd25519(pubKeyHex, msg, sig) ==
    /\ HexLen(pubKeyHex) = 64
    /\ sig.wellFormed
    /\ sig.by = pubKeyHex
    /\ sig.msg = msg

\* verifySecp256k1: crypto.UnmarshalPubkey accepts only the 65-byte
\* uncompressed encoding, then crypto.VerifySignature on the 64-byte (R,S)
verifySecp256k1(pubKeyHex, msg, sig) ==
    /\ HexLen(pubKeyHex) = 130
    /\ sig.wellFormed
    /\ sig.by = pubKeyHex
    /\ sig.msg = msg

\* the signature check of one token (client.go 715-723)
TokenSigValid(pubKeyHex, msg, sig) ==
    IF HexLen(pubKeyHex) = 64
        THEN verifyEd25519(pubKeyHex, msg, sig)
        ELSE verifySecp256k1(pubKeyHex, msg, sig)

\* allowedKeysMap: the lower-cased PublicKeyHex of every stored UserAuthKey
AllowedKeysMap(allowedKeys) == {ToLower(k) : k \in allowedKeys}

\* minSignatures: 1 unless a policy was loaded (a failed lookup loads none)
MinSignaturesOf(g) ==
    IF g.policyErr \/ ~g.hasPolicy THEN 1 ELSE g.policy

\* msgToVerify: req.Message, or the decoded MessageHex when Message is empty
MsgToVerify(g) ==
    IF g.message = "" /\ g.messageHex # ""
        THEN HexDecode(g.messageHex)
        ELSE [ok |-> TRUE, bytes |-> g.message]

\* the iteration with the key marked as visited before its signature is checked
GateStep_VisitBeforeVerify(st, token, allowedMap, msg) ==
    LET pubKeyHex == ToLower(token.pk) IN
    IF pubKeyHex \notin allowedMap THEN st
    ELSE IF pubKeyHex \in st.visited THEN st
    ELSE IF TokenSigValid(pubKeyHex, msg, token.sig)
        THEN [count |-> st.count + 1, visited |-> st.visited \cup {pubKeyHex}]
        ELSE [count |-> st.count, visited |-> st.visited \cup {pubKeyHex}]

\* one iteration of the token loop (client.go 698-732) on the running state
\* st = [count, visited]
GateStep(st, token, allowedMap, msg) ==
    LET pubKeyHex == ToLower(token.pk) IN
    IF pubKeyHex \notin allowedMap THEN st
    ELSE IF pubKeyHex \in st.visited THEN st
    ELSE IF TokenSigValid(pubKeyHex, msg, token.sig)
        THEN [count |-> st.count + 1, visited |-> st.visited \cup {pubKeyHex}]
        ELSE st

RECURSIVE GateLoop(_, _, _, _, _)
GateLoop(tokens, i, st, allowedMap, msg) ==
    IF i > Len(tokens) THEN st
    ELSE GateLoop(tokens, i + 1, GateStep(st, tokens[i], allowedMap, msg), allowedMap, msg)

\* checkGuardianPolicy: "ok" (nil), "insufficient" or "error"
checkGuardianPolicy(g) ==
    LET minSignatures == MinSignaturesOf(g)
        m == MsgToVerify(g)
    IN  IF g.listErr THEN "error"
        ELSE IF ~m.ok THEN "error"
        ELSE LET st == GateLoop(g.tokens, 1, [count |-> 0, visited |-> {}],
                                AllowedKeysMap(g.allowedKeys), m.bytes)
             IN IF st.count < minSignatures THEN "insufficient" ELSE "ok"

\* the tokens a request may carry
TokenPool ==
    { [pk |-> "ed1", sig |-> [by |-> "ed1", msg |-> "m1", wellFormed |-> TRUE]],
      [pk |-> "ED1", sig |-> [by |-> "ed1", msg |-> "m1", wellFormed |-> TRUE]],
      [pk |-> "ed2", sig |-> [by |-> "ed2", msg |-> "m1", wellFormed |-> TRUE]],
      [pk |-> "ed3", sig |-> [by |-> "ed3", msg |-> "m1", wellFormed |-> TRUE]],
      [pk |-> "secpU", sig |-> [by |-> "secpU", msg |-> "m1", wellFormed |-> TRUE]],
      [pk |-> "secpC", sig |-> [by |-> "secpC", msg |-> "m1", wellFormed |-> TRUE]],
      [pk |-> "ed2", sig |-> BadSig] }

\* stored allow-lists (user_auth_keys rows of the key)
AllowLists == { {"ed1"}, {"ED1", "ed2"}, {"ed1", "ed2", "secpU", "secpC"} }

GateInputs ==
    { g \in
        [ hasPolicy : BOOLEAN,               \* a signing_policies row is stored for the key
          policy : -1..MaxMinSignatures,     \* its MinSignatures column (an int)
          policyErr : BOOLEAN,               \* GetSigningPolicy returned an error
          allowedKeys : AllowLists,
          listErr : BOOLEAN,                 \* ListUserAuthKeys returned an error
          message : {"", "m2"},
          messageHex : {"6d31", "zz"},
          tokens : SeqsUpTo(TokenPool, MaxTokens) ] :
        ~g.hasPolicy => g.policy = 0 }

NoGate == [ hasPolicy |-> FALSE, policy |-> 0, policyErr |-> FALSE, allowedKeys |-> {}, listErr |-> FALSE,
            message |-> "", messageHex |-> "", tokens |-> <<>> ]

(***************************************************************************)
(* auth.VerifyPasskeySignature                                             *)
(***************************************************************************)

\* publicKeyHex values: two registered COSE keys, a string that is not hex,
\* and hex bytes that are not a COSE key
PasskeyHexes == {"cose1", "cose2", "zz", "dead"}

\* hex.DecodeString followed by webauthncose.ParsePublicKey
ParsePasskey(publicKeyHex) ==
    CASE publicKeyHex = "zz" -> [err |-> "invalid public key hex", key |-> "none"]
      [] publicKeyHex = "dead" -> [err |-> "failed to parse public key", key |-> "none"]
      [] OTHER -> [err |-> "", key |-> publicKeyHex]

\* a base64url challenge string: its characters and its trailing "=" padding
ChallengeStrs == [body : {"c1", "c2"}, pad : 0..1]

\* strings.TrimRight(s, "=")
TrimPad(c) == [body |-> c.body, pad |-> 0]

\* clientDataJSON: bytes that do not parse, or the parsed CollectedClientData
ClientDatas == {[parses |-> FALSE, type |-> "", challenge |-> [body |-> "c1", pad |-> 0]]}
    \cup [parses : {TRUE}, type : {"webauthn.get", "webauthn.create"}, challenge : ChallengeStrs]

\* authData: bytes too short to unmarshal, or parsed flags
AuthDatas == {[parses |-> FALSE, up |-> FALSE]} \cup [parses : {TRUE}, up : BOOLEAN]

\* authData || sha256(clientDataJSON)
SignedData(authData, clientDataJSON) == <<authData, clientDataJSON>>

\* an assertion signature: malformed, or made by key `by` over `over`
PasskeySigs == [wellFormed : BOOLEAN, by : {"cose1", "cose2"},
                over : {SignedData(a, c) : a \in {[parses |-> TRUE, up |-> TRUE], [parses |-> TRUE, up |-> FALSE]},
                                           c \in {cd \in ClientDatas : cd.parses /\ cd.challenge.pad = 0}}]

\* webauthncose.VerifySignature: (valid, err)
CoseVerify(key, signedData, sig) ==
    IF ~sig.wellFormed THEN [err |-> TRUE, valid |-> FALSE]
    ELSE [err |-> FALSE, valid |-> (sig.by = key /\ sig.over = signedData)]

\* VerifyPasskeySignature: "ok" (nil) or the error
VerifyPasskeySignature(publicKeyHex, signature, authData, clientDataJSON, expectedChallenge) ==
    LET pk == ParsePasskey(publicKeyHex) IN
    IF pk.err # "" THEN pk.err
    ELSE IF ~clientDataJSON.parses THEN "failed to parse client data"
    ELSE IF /\ clientDataJSON.challenge # expectedChallenge
            /\ TrimPad(clientDataJSON.challenge) # TrimPad(expectedChallenge)
        THEN "challenge mismatch"
    ELSE IF ~authData.parses THEN "failed to parse authenticator data"
    ELSE IF ~authData.up THEN "user not present"
    ELSE LET v == CoseVerify(pk.key, SignedData(authData, clientDataJSON), signature) IN
         IF v.err THEN "error verifying signature"
         ELSE IF ~v.valid THEN "invalid signature"
         ELSE "ok"

PasskeyInputs ==
    [ publicKeyHex : PasskeyHexes, signature : PasskeySigs, authData : AuthDatas,
      clientDataJSON : ClientDatas, expectedChallenge : ChallengeStrs ]

NoPasskey == [ publicKeyHex |-> "none" ]

(***************************************************************************)
(* Non-hardened child derivation of key shares                             *)
(***************************************************************************)

\* The curve group is modelled as the additive group of integers modulo the
\* prime GroupOrder: a point is the residue of its discrete logarithm times
\* Gen, 0 is the point at infinity.
GroupOrder == 7
Gen == 3

\* curve.Add
PointAdd(p, q) == (p + q) % GroupOrder

\* curve.ScalarBaseMult
ScalarBaseMult(k) == (k * Gen) % GroupOrder

\* crypto.NewECPoint / btcec.ParsePubKey accept only points on the curve;
\* the point at infinity is not one
IsOnCurve(p) == p # 0

\* A uint32 index is kept as its top bit (hi, the 0x80000000 bit) and its
\* low 31 bits (lo).
Index(hi, lo) == [hi |-> hi, lo |-> lo]

\* index >= 0x80000000
IsHardened(index) == index.hi = 1

\* binary.BigEndian.PutUint32: an injective encoding of the index
Be32(index) == 2 * index.lo + index.hi

\* a path component: its decimal digits and its hardened suffix
PathComponents ==
    { [digits |-> "0", suffix |-> ""], [digits |-> "1", suffix |-> ""],
      [digits |-> "2147483648", suffix |-> ""], [digits |-> "1", suffix |-> "'"],
      [digits |-> "x", suffix |-> ""], [digits |-> "4294967296", suffix |-> ""] }

\* strconv.ParseUint(part, 10, 32): a uint32, or a syntax or range error
ParseUint32(digits) ==
    CASE digits = "0" -> [ok |-> TRUE, val |-> Index(0, 0)]
      [] digits = "1" -> [ok |-> TRUE, val |-> Index(0, 1)]
      [] digits = "2147483648" -> [ok |-> TRUE, val |-> Index(1, 0)]
      [] digits = "4294967296" -> [ok |-> FALSE, val |-> Index(0, 0)]
      [] OTHER -> [ok |-> FALSE, val |-> Index(0, 0)]

\* index |= 0x80000000 on a uint32
SetHardenedBit(v) == Index(1, v.lo)

\* parseDerivationPath on the components after the optional leading "m"
RECURSIVE ParseParts(_, _, _)
ParseParts(parts, i, acc) ==
    IF i > Len(parts) THEN [err |-> "", indices |-> acc]
    ELSE LET part == parts[i]
             isHardened == part.suffix \in {"'", "h", "H"}
             val == ParseUint32(part.digits)
         IN IF part.digits = "" /\ part.suffix = "" THEN ParseParts(parts, i + 1, acc)
            ELSE IF ~val.ok THEN [err |-> "invalid path component", indices |-> <<>>]
            ELSE ParseParts(parts, i + 1,
                            Append(acc, IF isHardened THEN SetHardenedBit(val.val) ELSE val.val))

parseDerivationPath(path) == ParseParts(path.parts, 1, <<>>)

\* HMAC-SHA512(key = chainCode, data = encode(pubKey) || be32(index)):
\* IL as an integer and IR as the next chain code
HashIL(pubKey, chainCode, index) ==
    (2 * pubKey + 3 * chainCode + 5 * Be32(index) + 1) % (GroupOrder + 2)
HashIR(pubKey, chainCode, index) == (pubKey + chainCode + Be32(index)) % 2

\* chain codes: 0 and 1 are 32-byte values, -1 is one of another length
ChainCodes == {0, 1, -1}

\* computeIL (secp256k1)
computeIL(pubKey, chainCode, index) ==
    LET il == HashIL(pubKey, chainCode, index) IN
    IF IsHardened(index) THEN [err |-> "hardened derivation is not supported", il |-> 0, ir |-> 0]
    ELSE IF chainCode \notin {0, 1} THEN [err |-> "invalid chain code length", il |-> 0, ir |-> 0]
    ELSE IF il >= GroupOrder \/ il = 0 THEN [err |-> "invalid derived key", il |-> 0, ir |-> 0]
    ELSE [err |-> "", il |-> il, ir |-> HashIR(pubKey, chainCode, index)]

\* computeIL_Ed25519: IL is not compared with the group order
computeIL_Ed25519(pubKey, chainCode, index) ==
    LET il == HashIL(pubKey, chainCode, index) IN
    IF IsHardened(index) THEN [err |-> "hardened derivation is not supported", il |-> 0, ir |-> 0]
    ELSE IF chainCode \notin {0, 1} THEN [err |-> "invalid chain code length", il |-> 0, ir |-> 0]
    ELSE IF il = 0 THEN [err |-> "invalid derived key", il |-> 0, ir |-> 0]
    ELSE [err |-> "", il |-> il, ir |-> HashIR(pubKey, chainCode, index)]

\* the running state of the derivation loop
DeriveState(xi, bigXj, cur, cc) == [err |-> "", Xi |-> xi, BigXj |-> bigXj, cur |-> cur, cc |-> cc]
DeriveError(st, e) == [st EXCEPT !.err = e]

\* the iteration with the current public key left at the parent's
DeriveStepECDSA_StalePublicKey(st, index, ks) ==
    IF ~IsOnCurve(st.cur) THEN DeriveError(st, "failed to parse public key")
    ELSE LET r == computeIL(st.cur, st.cc, index) IN
    IF r.err # "" THEN DeriveError(st, r.err)
    ELSE IF Len(ks) = 0 THEN DeriveError(st, "Ks is empty")
    ELSE LET delta == ScalarBaseMult(r.il)
             newXj == [k \in DOMAIN st.BigXj |-> PointAdd(st.BigXj[k], delta)]
         IN IF \E k \in DOMAIN newXj : ~IsOnCurve(newXj[k])
                THEN DeriveError(st, "failed to create new ECPoint")
                ELSE [err |-> "", Xi |-> (st.Xi + r.il) % GroupOrder, BigXj |-> newXj,
                      cur |-> st.cur, cc |-> r.ir]

\* one iteration of the loop of DeriveLocalPartySaveData (part_024 312-399)
DeriveStepECDSA(st, index, ks) ==
    IF ~IsOnCurve(st.cur) THEN DeriveError(st, "failed to parse public key")
    ELSE LET r == computeIL(st.cur, st.cc, index) IN
    IF r.err # "" THEN DeriveError(st, r.err)
    ELSE IF Len(ks) = 0 THEN DeriveError(st, "Ks is empty")
    ELSE LET delta == ScalarBaseMult(r.il)
             newXj == [k \in DOMAIN st.BigXj |-> PointAdd(st.BigXj[k], delta)]
         IN IF \E k \in DOMAIN newXj : ~IsOnCurve(newXj[k])
                THEN DeriveError(st, "failed to create new ECPoint")
                ELSE [err |-> "", Xi |-> (st.Xi + r.il) % GroupOrder, BigXj |-> newXj,
                      cur |-> PointAdd(st.cur, delta), cc |-> r.ir]

\* one iteration of the loop of DeriveEdDSALocalPartySaveData (part_024 517-568)
DeriveStepEdDSA(st, index, ks) ==
    LET r == computeIL_Ed25519(st.cur, st.cc, index) IN
    IF r.err # "" THEN DeriveError(st, r.err)
    ELSE LET delta == ScalarBaseMult(r.il)
             newXj == [k \in DOMAIN st.BigXj |-> PointAdd(st.BigXj[k], delta)]
         IN IF \E k \in DOMAIN newXj : ~IsOnCurve(newXj[k])
                THEN DeriveError(st, "failed to create new ECPoint")
                ELSE [err |-> "", Xi |-> (st.Xi + r.il) % GroupOrder, BigXj |-> newXj,
                      cur |-> PointAdd(st.cur, delta), cc |-> r.ir]

RECURSIVE DeriveLoop(_, _, _, _, _)
DeriveLoop(scheme, st, indices, i, ks) ==
    IF st.err # "" \/ i > Len(indices) THEN st
    ELSE DeriveLoop(scheme,
                    IF scheme = "ecdsa" THEN DeriveStepECDSA(st, indices[i], ks)
                                        ELSE DeriveStepEdDSA(st, indices[i], ks),
                    indices, i + 1, ks)

\* myIndex: the position of ShareID in Ks, -1 when it is not there
MyIndex(ks, shareID) ==
    IF \E i \in DOMAIN ks : ks[i] = shareID
        THEN CHOOSE i \in DOMAIN ks : ks[i] = shareID /\ \A j \in 1..(i - 1) : ks[j] # shareID
        ELSE -1

DeriveFail(e) == [err |-> e, child |-> "none"]
DerivePending == [err |-> "pending", child |-> "none"]
DeriveOk(c) == [err |-> "", child |-> c]

ChildOf(parent, st) ==
    [Xi |-> st.Xi, BigXj |-> st.BigXj, Ks |-> parent.Ks, ShareID |-> parent.ShareID, Pub |-> st.cur]

\* the invariant check Xi*G == BigXj[myIndex] (part_024 408-433); TRUE means
\* the derivation is rejected
InvariantCheckFails(child) ==
    LET myIndex == MyIndex(child.Ks, child.ShareID) IN
    /\ myIndex >= 1 /\ myIndex <= Len(child.BigXj)
    /\ child.BigXj[myIndex] # ScalarBaseMult(child.Xi)

\* DeriveLocalPartySaveData
DeriveLocalPartySaveData(parentData, parentChainCode, derivationPath) ==
    IF derivationPath.parts = <<>> /\ ~derivationPath.m THEN DeriveOk(parentData)
    ELSE LET p == parseDerivationPath(derivationPath) IN
    IF p.err # "" THEN DeriveFail("failed to parse derivation path")
    ELSE IF Len(p.indices) = 0 THEN DeriveOk(parentData)
    ELSE LET st == DeriveLoop("ecdsa",
                              DeriveState(parentData.Xi, parentData.BigXj, parentData.Pub, parentChainCode),
                              p.indices, 1, parentData.Ks)
         IN IF st.err # "" THEN DeriveFail(st.err)
            ELSE IF ~IsOnCurve(st.cur) THEN DeriveFail("failed to create final public key point")
            ELSE IF InvariantCheckFails(ChildOf(parentData, st)) THEN DeriveFail("derivation invariant failed")
            ELSE DeriveOk(ChildOf(parentData, st))

\* DeriveEdDSALocalPartySaveData
DeriveEdDSALocalPartySaveData(parentData, parentChainCode, derivationPath) ==
    IF derivationPath.parts = <<>> /\ ~derivationPath.m THEN DeriveOk(parentData)
    ELSE LET p == parseDerivationPath(derivationPath) IN
    IF p.err # "" THEN DeriveFail("failed to parse derivation path")
    ELSE IF Len(p.indices) = 0 THEN DeriveOk(parentData)
    ELSE LET st == DeriveLoop("eddsa",
                              DeriveState(parentData.Xi, parentData.BigXj, parentData.Pub, parentChainCode),
                              p.indices, 1, parentData.Ks)
         IN IF st.err # "" THEN DeriveFail(st.err)
            ELSE IF ~IsOnCurve(st.cur) THEN DeriveFail("failed to create final public key point")
            ELSE DeriveOk(ChildOf(parentData, st))

Derive(scheme, parentData, parentChainCode, derivationPath) ==
    IF scheme = "ecdsa" THEN DeriveLocalPartySaveData(parentData, parentChainCode, derivationPath)
                        ELSE DeriveEdDSALocalPartySaveData(parentData, parentChainCode, derivationPath)

(***************************************************************************)
(* The objects behind a bundle: a LocalPartySaveData is a struct of         *)
(* pointers and slices; a field is named by the object it points to        *)
(***************************************************************************)

\* the fields of the caller's parentData
ParentRefs ==
    [data |-> "parent", Xi |-> "parent.Xi", BigXj |-> "parent.BigXj", BigXjPoints |-> "parent.BigXj[]",
     Ks |-> "parent.Ks", ShareID |-> "parent.ShareID", Pub |-> "parent.Pub", Paillier |-> "parent.Paillier"]

\* childData as the two functions fill it: new(LocalPartySaveData), a new Xi,
\* a new BigXj slice of new points and a new public key; Ks and ShareID are
\* assigned from the parent, and so are LocalPreParams, PaillierPKs, NTildej,
\* H1j and H2j of an ECDSA bundle (an EdDSA bundle has none)
ChildRefs(scheme) ==
    [data |-> "child", Xi |-> "child.Xi", BigXj |-> "child.BigXj", BigXjPoints |-> "child.BigXj[]",
     Ks |-> "parent.Ks", ShareID |-> "parent.ShareID", Pub |-> "child.Pub",
     Paillier |-> IF scheme = "ecdsa" THEN "parent.Paillier" ELSE "none"]

\* a nil *LocalPartySaveData
NilRefs == [f \in DOMAIN ParentRefs |-> "none"]
NoRefs == [refs |-> NilRefs, written |-> {}]

\* the path is "" or parses to no index: parentData itself is returned
ReturnsParent(derivationPath) ==
    \/ derivationPath.parts = <<>> /\ ~derivationPath.m
    \/ /\ parseDerivationPath(derivationPath).err = ""
       /\ Len(parseDerivationPath(derivationPath).indices) = 0

\* what the returned pointer refers to, and the objects the loop assigned to
DeriveRefs(scheme, derivationPath, ok) ==
    IF ReturnsParent(derivationPath) THEN [refs |-> ParentRefs, written |-> {}]
    ELSE IF parseDerivationPath(derivationPath).err # "" THEN NoRefs
    ELSE [refs |-> IF ok THEN ChildRefs(scheme) ELSE NilRefs,
          written |-> {"child", "child.Xi", "child.BigXj", "child.Pub"}]

(***************************************************************************)
(* Share bundles of a key shared with a degree-1 polynomial a0 + a1*k      *)
(***************************************************************************)

\* Ks: the participants' indices
Ks == [i \in 1..NumParties |-> i]

Share(a0, a1, k) == (a0 + a1 * k) % GroupOrder

\* The bundle held by participant j.  variant "consistent": x_j*G = X_j for
\* every j; "badLocalX": the stored public share of participant `me` is not
\* x_me*G; "badShareID": the ShareID of `me` is not among Ks.
ParentBundle(in, j) ==
    [ Xi |-> Share(in.a0, in.a1, Ks[j]),
      BigXj |-> [i \in 1..NumParties |->
                    IF in.variant = "badLocalX" /\ i = in.me
                        THEN PointAdd(ScalarBaseMult(Share(in.a0, in.a1, Ks[i])), Gen)
                        ELSE ScalarBaseMult(Share(in.a0, in.a1, Ks[i]))],
      Ks |-> Ks,
      ShareID |-> IF in.variant = "badShareID" /\ j = in.me THEN 0 ELSE Ks[j],
      Pub |-> ScalarBaseMult(in.a0) ]

DerivationPaths == [m : BOOLEAN, parts : SeqsUpTo(PathComponents, MaxPathLen)]

DeriveInputs ==
    { in \in [ scheme : {"ecdsa", "eddsa"}, a0 : 1..(GroupOrder - 1), a1 : 1..2, me : 1..NumParties,
               variant : {"consistent", "badLocalX", "badShareID"},
               cc : ChainCodes, path : DerivationPaths ] :
        \A i \in 1..NumParties : IsOnCurve(ParentBundle(in, in.me).BigXj[i]) }

NoDerive == [scheme |-> "none"]

(***************************************************************************)
(* Sessions: the store and the session manager                             *)
(***************************************************************************)

SignSessionID == "s1"
DkgKeyID == "kg"
WalletSessionID == "s2"
SessionIDs == {SignSessionID, DkgKeyID, WalletSessionID}

\* the zero value read for an id that has no stored session
NoSession == [keyID |-> "", protocol |-> "", status |-> "absent", threshold |-> 0,
              totalNodes |-> 0, participants |-> <<>>, signature |-> ""]

IsTerminal(status) == status \in {"completed", "failed", "cancelled"}

\* Manager.CreateSession: persists Session{status = Pending} under a fresh id
CreateSession(ss, id, keyID, protocol, threshold, totalNodes) ==
    [ss EXCEPT ![id] = [keyID |-> keyID, protocol |-> protocol, status |-> "pending",
                        threshold |-> threshold, totalNodes |-> totalNodes,
                        participants |-> <<>>, signature |-> ""]]

\* whether the manager accepts a mutation of session id
Mutable(ss, id) == ss[id] # NoSession /\ ~IsTerminal(ss[id].status)

\* Manager.UpdateSession: writes the caller's record; a terminal session is
\* immutable and the mutation is rejected
UpdateSession(ss, id, rec) == IF Mutable(ss, id) THEN [ss EXCEPT ![id] = rec] ELSE ss

\* Manager.CompleteSession / CompleteKeygenSession: complete(session_id, result)
CompleteSession(ss, id, data) ==
    IF Mutable(ss, id) THEN [ss EXCEPT ![id].status = "completed", ![id].signature = data] ELSE ss

\* Manager.FailSession / FailKeygenSession: fail(session_id, reason)
FailSession(ss, id) ==
    IF Mutable(ss, id) THEN [ss EXCEPT ![id].status = "failed"] ELSE ss

\* Manager.CancelSession
CancelSession(ss, id) ==
    IF Mutable(ss, id) THEN [ss EXCEPT ![id].status = "cancelled"] ELSE ss

(***************************************************************************)
(* Keys, nodes and requests of the signing service                         *)
(***************************************************************************)

\* key metadata: Threshold (required signer count), TotalNodes, Algorithm and
\* Curve, length of the public key in bytes, whether those bytes decode to
\* a point of P-256, Tags of a derived key
KeyMetadata(k) ==
    CASE k = "k22" -> [Threshold |-> 2, TotalNodes |-> 2, Algorithm |-> "EdDSA", Curve |-> "ed25519",
                       pubKeyLen |-> 32, parsesOnP256 |-> FALSE, ChainCode |-> "cc",
                       parent |-> "", pathTag |-> "none", indexTag |-> "none"]
      [] k = "k23" -> [Threshold |-> 2, TotalNodes |-> 3, Algorithm |-> "ECDSA", Curve |-> "secp256k1",
                       pubKeyLen |-> 33, parsesOnP256 |-> TRUE, ChainCode |-> "cc",
                       parent |-> "", pathTag |-> "none", indexTag |-> "none"]
      [] k = "k24" -> [Threshold |-> 2, TotalNodes |-> 4, Algorithm |-> "ECDSA", Curve |-> "secp256k1",
                       pubKeyLen |-> 33, parsesOnP256 |-> FALSE, ChainCode |-> "cc",
                       parent |-> "", pathTag |-> "none", indexTag |-> "none"]
      [] k = "kd"  -> [Threshold |-> 2, TotalNodes |-> 3, Algorithm |-> "ECDSA", Curve |-> "secp256k1",
                       pubKeyLen |-> 33, parsesOnP256 |-> FALSE, ChainCode |-> "",
                       parent |-> "k23", pathTag |-> "m/0", indexTag |-> "none"]
      [] k = "ki"  -> [Threshold |-> 2, TotalNodes |-> 3, Algorithm |-> "ECDSA", Curve |-> "secp256k1",
                       pubKeyLen |-> 33, parsesOnP256 |-> FALSE, ChainCode |-> "",
                       parent |-> "k23", pathTag |-> "none", indexTag |-> "0"]
SignKeys == {"k22", "k23", "k24", "kd", "ki"}

\* inferProtocol with defaultProtocol "gg20"
inferProtocol(algorithm, curve) ==
    IF algorithm \in {"EdDSA", "Schnorr"} /\ curve \in {"ed25519", "secp256k1"} THEN "frost"
    ELSE "gg20"

\* the signing policy and allow-list stored for every key of the model
KeyPolicy == 2
KeyAllowList == {"ed1", "ed2"}

\* derivation paths a request may carry, as parsed by parseDerivationPath
PathOf(name) ==
    CASE name = "" -> [m |-> FALSE, parts |-> <<>>]
      [] name = "m/0" -> [m |-> TRUE, parts |-> <<[digits |-> "0", suffix |-> ""]>>]
      [] name = "m/2147483648" -> [m |-> TRUE, parts |-> <<[digits |-> "2147483648", suffix |-> ""]>>]
      [] name = "m/0'" -> [m |-> TRUE, parts |-> <<[digits |-> "0", suffix |-> "'"]>>]
RequestPaths == {"", "m/0", "m/2147483648", "m/0'"}

\* AuthTokens a request may carry: none, one valid assertion, two valid
\* assertions of distinct credentials
RequestTokens ==
    { <<>>,
      <<[pk |-> "ed1", sig |-> [by |-> "ed1", msg |-> "m1", wellFormed |-> TRUE]]>>,
      <<[pk |-> "ed1", sig |-> [by |-> "ed1", msg |-> "m1", wellFormed |-> TRUE]],
        [pk |-> "ed2", sig |-> [by |-> "ed2", msg |-> "m1", wellFormed |-> TRUE]]>> }

SignRequests ==
    [ KeyID : SignKeys, MessageHex : {"6d31", "zz"}, DerivationPath : RequestPaths,
      AuthTokens : RequestTokens, MobileNodeID : {"", "mobile-1"} ]

NoSignReq == [KeyID |-> "", MessageHex |-> "", DerivationPath |-> "", AuthTokens |-> <<>>,
              MobileNodeID |-> ""]

\* what node.Discovery.DiscoverNodes may return (at most `limit` nodes), and
\* the purpose of each discovered node
DiscoveryResults == { <<"n1">>, <<"n1", "n2">>, <<"n1", "n4", "n2">>, <<"n1", "n2", "n3">> }
Purpose(n) == CASE n = "n1" -> "signing" [] n = "n2" -> "" [] n = "n3" -> "signing" [] OTHER -> "backup"

Nodes == {"mobile-1", "server-signer-p2", "server-proxy-1", "server-proxy-2", "server-backup-1",
          "n1", "n2", "n3", "n4"}

\* SelectSeq-style filter keeping purpose "signing" or ""
RECURSIVE FilterSigning(_)
FilterSigning(seq) ==
    IF seq = <<>> THEN <<>>
    ELSE IF Purpose(Head(seq)) \in {"signing", ""}
        THEN <<Head(seq)>> \o FilterSigning(Tail(seq))
        ELSE FilterSigning(Tail(seq))

Min(a, b) == IF a < b THEN a ELSE b
Max(a, b) == IF a > b THEN a ELSE b

\* step 4 of ThresholdSign (part_018 185-252): the participating nodes, or
\* the error the branch returns
SelectParticipants(km, mobileNodeID, discovered) ==
    IF km.Threshold = 2 /\ km.TotalNodes = 2 THEN
        IF mobileNodeID = "" THEN [err |-> "mobile node ID is required", nodes |-> <<>>]
        ELSE [err |-> "", nodes |-> <<mobileNodeID, "server-signer-p2">>]
    ELSE IF km.Threshold = 2 /\ km.TotalNodes = 3 THEN
        [err |-> "", nodes |-> <<"server-proxy-1", "server-proxy-2">>]
    ELSE LET limit == Max(km.TotalNodes, km.Threshold)
             participants == SubSeq(discovered, 1, Min(limit, Len(discovered)))
             signingNodes == FilterSigning(participants)
             needNodes == Min(Max(km.TotalNodes, km.Threshold), Len(signingNodes))
         IN IF Len(signingNodes) < km.Threshold
                THEN [err |-> "insufficient active signing nodes", nodes |-> <<>>]
                ELSE [err |-> "", nodes |-> SubSeq(signingNodes, 1, needNodes)]

\* the derivation path the coordinator puts in StartSignRequest (part_018 131-173)
EffectivePath(req) ==
    LET km == KeyMetadata(req.KeyID) IN
    IF km.parent = "" THEN req.DerivationPath
    ELSE IF km.pathTag # "none" THEN km.pathTag
    ELSE IF km.indexTag # "none" THEN "m/" \o km.indexTag
    ELSE req.DerivationPath

\* length in bytes of hex.DecodeString of a stored chain code: "cc" stands for
\* 64 hex digits
ChainCodeLen(cc) == IF cc = "cc" THEN 32 ELSE 0

\* parentChainCode of ThresholdSign, as its length (0 for nil)
ParentChainCode(req) ==
    LET km == KeyMetadata(req.KeyID) IN
    IF km.parent # "" THEN ChainCodeLen(KeyMetadata(km.parent).ChainCode)
    ELSE ChainCodeLen(km.ChainCode)

\* the key id the session is created for
SigningKeyID(req) ==
    LET km == KeyMetadata(req.KeyID) IN IF km.parent # "" THEN km.parent ELSE req.KeyID

\* the StartSignRequest ThresholdSign builds
StartSignRequest(req) ==
    [SessionId |-> SignSessionID, KeyId |-> SigningKeyID(req),
     DerivationPath |-> EffectivePath(req), ParentChainCode |-> ParentChainCode(req)]

\* Data strings a node may report for a signing session: hex of a 70-byte DER
\* signature, of a 64-byte raw signature, of 65 other bytes, a non-hex
\* string, or nothing
SignReportData == {"der-good", "der-bad", "raw-good", "raw-bad", "other65", "zz", ""}
SigIsHex(d) == d # "zz"
SigLen(d) == CASE d \in {"der-good", "der-bad"} -> 70 [] d \in {"raw-good", "raw-bad"} -> 64
               [] d = "other65" -> 65 [] OTHER -> 0
\* whether the bytes are a signature of the request's message under the key
SigVerifies(d) == d \in {"der-good", "raw-good"}

\* verifyECDSASignature: a 33- or 65-byte key is parsed as a P-256 point; a
\* secp256k1 key either fails to parse or parses to a P-256 key under which
\* the signature does not verify; a 32-byte key has an unsupported length
verifyECDSASignature(d, km) ==
    IF km.pubKeyLen \in {33, 65} /\ km.parsesOnP256 THEN [valid |-> FALSE, err |-> FALSE]
    ELSE [valid |-> FALSE, err |-> TRUE]

\* verifySchnorrSignature: assumed valid
verifySchnorrSignature(d) == [valid |-> TRUE, err |-> FALSE]

\* verifyEd25519Signature
verifyEd25519Signature(d) == [valid |-> SigVerifies(d), err |-> FALSE]

\* verifySignatureStandard: (valid, err) by signature length and key length
verifySignatureStandard(d, km) ==
    IF SigLen(d) = 70 THEN verifyECDSASignature(d, km)
    ELSE IF SigLen(d) = 64 THEN
        IF km.pubKeyLen = 32 THEN verifyEd25519Signature(d)
        ELSE IF km.pubKeyLen \in {33, 65} THEN verifySchnorrSignature(d)
        ELSE [valid |-> FALSE, err |-> TRUE]
    ELSE [valid |-> FALSE, err |-> TRUE]

(***************************************************************************)
(* The protocol of a key: inferProtocolForDKG and the two inferProtocol     *)
(***************************************************************************)

\* algorithm and curve strings in several spellings, and the values of
\* cfg.MPC.DefaultProtocol
AlgorithmNames == {"ECDSA", "ecdsa", "EdDSA", "eddsa", "EDDSA", "Schnorr", "schnorr"}
CurveNames == {"secp256k1", "SECP256K1", "ed25519", "Ed25519", "secp256r1"}
DefaultProtocols == {"gg18", "gg20", "frost"}

\* strings.ToLower on an algorithm or curve string
ToLowerName(name) ==
    CASE name \in {"ECDSA", "ecdsa"} -> "ecdsa"
      [] name \in {"EdDSA", "eddsa", "EDDSA"} -> "eddsa"
      [] name \in {"Schnorr", "schnorr"} -> "schnorr"
      [] name \in {"secp256k1", "SECP256K1"} -> "secp256k1"
      [] name \in {"ed25519", "Ed25519"} -> "ed25519"
      [] OTHER -> name

\* inferProtocolForDKG (dkg.go)
inferProtocolForDKG(algorithm, curve) ==
    LET algorithmLower == ToLowerName(algorithm)
        curveLower == ToLowerName(curve)
    IN  IF algorithmLower \in {"eddsa", "schnorr"} /\ curveLower \in {"ed25519", "secp256k1"} THEN "frost"
        ELSE IF algorithmLower = "ecdsa" /\ curveLower \in {"secp256k1", "secp256r1"} THEN "gg20"
        ELSE "gg20"

\* inferProtocol of the signing service, with its defaultProtocol
inferProtocolWithDefault(algorithm, curve, defaultProtocol) ==
    LET algorithmLower == ToLowerName(algorithm)
        curveLower == ToLowerName(curve)
    IN  IF algorithmLower \in {"eddsa", "schnorr"} /\ curveLower \in {"ed25519", "secp256k1"} THEN "frost"
        ELSE IF algorithmLower = "ecdsa" /\ curveLower = "secp256k1"
            THEN IF defaultProtocol \in {"gg18", "gg20"} THEN defaultProtocol ELSE "gg20"
        ELSE IF defaultProtocol # "" THEN defaultProtocol
        ELSE "gg20"

\* inferProtocol of the wallet handlers: the strings are compared as they are
walletInferProtocol(algorithm, curve) ==
    IF algorithm \in {"EdDSA", "Schnorr"} /\ curve \in {"ed25519", "secp256k1"} THEN "frost"
    ELSE IF algorithm = "ECDSA" /\ curve \in {"secp256k1", "secp256r1"} THEN "gg20"
    ELSE "gg20"

\* ExecuteDKG saves the session of the key with the protocol it inferred
RecordDkgProtocol ==
    /\ ipDkg = "none"
    /\ ipDkg' = inferProtocolForDKG(ipKey.Algorithm, ipKey.Curve)
    /\ UNCHANGED <<ipKey, ipSign, ipWallet, authVars, deriveVars, sessionVars, shareVars, routerVars, walVars,
                   registryVars, weightedVars, connVars, roundRobinVars, verifyVars>>

\* ThresholdSign infers the protocol of the generated key
SignInferProtocol ==
    /\ ipDkg # "none" /\ ipSign = "none"
    /\ ipSign' = inferProtocolWithDefault(ipKey.Algorithm, ipKey.Curve, ipKey.defaultProtocol)
    /\ UNCHANGED <<ipKey, ipDkg, ipWallet, authVars, deriveVars, sessionVars, shareVars, routerVars, walVars,
                   registryVars, weightedVars, connVars, roundRobinVars, verifyVars>>

\* postSignTransactionHandler infers the protocol of the generated key
WalletInferProtocol ==
    /\ ipDkg # "none" /\ ipWallet = "none"
    /\ ipWallet' = walletInferProtocol(ipKey.Algorithm, ipKey.Curve)
    /\ UNCHANGED <<ipKey, ipDkg, ipSign, authVars, deriveVars, sessionVars, shareVars, routerVars, walVars,
                   registryVars, weightedVars, connVars, roundRobinVars, verifyVars>>

(***************************************************************************)
(* Service.Verify                                                          *)
(***************************************************************************)

\* the requests Verify may get: Signature as in SignReportData; PublicKey the
\* hex of the public key of one of the keys, named by the key, or a non-hex
\* string; MessageHex the hex of the signed message m1, a non-hex string, or
\* empty, in which case Message (the bytes of m1) is used
VerifyRequests ==
    [ Signature : SignReportData, PublicKey : SignKeys \cup {"zz"}, MessageHex : {"6d31", "zz", ""} ]

\* Service.Verify: [called, err, Valid]
Verify(req) ==
    IF ~SigIsHex(req.Signature)
        THEN [called |-> TRUE, err |-> "failed to decode signature hex", Valid |-> FALSE]
    ELSE IF req.PublicKey = "zz"
        THEN [called |-> TRUE, err |-> "failed to decode public key hex", Valid |-> FALSE]
    ELSE IF req.MessageHex # "" /\ ~HexDecode(req.MessageHex).ok
        THEN [called |-> TRUE, err |-> "failed to decode message hex", Valid |-> FALSE]
    ELSE LET r == verifySignatureStandard(req.Signature, KeyMetadata(req.PublicKey))
             valid == IF r.err THEN TRUE ELSE IF ~r.valid THEN TRUE ELSE r.valid
         IN [called |-> TRUE, err |-> "", Valid |-> valid]

VerifyCall ==
    /\ ~vfOut.called
    /\ vfOut' = Verify(vfReq)
    /\ UNCHANGED <<vfReq, authVars, deriveVars, sessionVars, shareVars, routerVars, walVars,
                   registryVars, weightedVars, connVars, roundRobinVars, protocolVars>>

(***************************************************************************)
(* Service.ThresholdSign, one action per step that reads or writes the     *)
(* session store or sends an RPC                                           *)
(***************************************************************************)

NoLocal == [snapshot |-> NoSession, participatingNodes |-> <<>>, signatureHex |-> ""]
NoStartResp == [n \in Nodes |-> "none"]
SignPending == [err |-> "pending", signature |-> ""]
SignError(e) == [err |-> e, signature |-> ""]

\* steps 1-3: GetKey, resolve the derived key, CreateSession.  A signing call
\* and a key generation work on different session ids; a behaviour follows
\* one of the two.
ThresholdSignBegin ==
    /\ signPc = "idle" /\ dkgPc = "idle" /\ dkgRuns = 0 /\ walletPc = "idle"
    /\ \E req \in SignRequests :
        LET km == KeyMetadata(req.KeyID)
            ss == CreateSession(sessions, SignSessionID, SigningKeyID(req),
                                inferProtocol(km.Algorithm, km.Curve), km.Threshold, km.TotalNodes)
        IN /\ signReq' = req
           /\ sessions' = ss
           /\ signLocal' = [signLocal EXCEPT !.snapshot = ss[SignSessionID]]
    /\ signPc' = "select"
    /\ UNCHANGED <<authVars, deriveVars, auxVars, walletVars, startResp, signRet, reported, dkgVars>>

\* steps 4-5: choose the participating nodes, UpdateSession, decode the message
ThresholdSignSelect ==
    /\ signPc = "select"
    /\ \E discovered \in DiscoveryResults :
        LET km == KeyMetadata(signReq.KeyID)
            sel == SelectParticipants(km, signReq.MobileNodeID, discovered)
            snap == [signLocal.snapshot EXCEPT !.participants = sel.nodes]
        IN IF sel.err # "" THEN
               /\ signRet' = SignError(sel.err) /\ signPc' = "done"
               /\ UNCHANGED <<sessions, signLocal>>
           ELSE IF ~Mutable(sessions, SignSessionID) THEN
               /\ signRet' = SignError("failed to update session with participating nodes")
               /\ signPc' = "done"
               /\ signLocal' = [signLocal EXCEPT !.snapshot = snap, !.participatingNodes = sel.nodes]
               /\ UNCHANGED sessions
           ELSE
               /\ sessions' = UpdateSession(sessions, SignSessionID, snap)
               /\ signLocal' = [signLocal EXCEPT !.snapshot = snap, !.participatingNodes = sel.nodes]
               /\ IF ~HexDecode(signReq.MessageHex).ok
                      THEN signRet' = SignError("failed to decode message hex") /\ signPc' = "done"
                  ELSE IF Len(sel.nodes) = 0
                      THEN signRet' = SignError("no participating nodes available") /\ signPc' = "done"
                  ELSE signRet' = signRet /\ signPc' = "starting"
    /\ UNCHANGED <<authVars, deriveVars, auxVars, walletVars, signReq, startResp, reported, dkgVars>>

\* step 6, one goroutine: SendStartSign to a participating node; the node
\* starts, rejects or the RPC fails
SendStartSign(n) ==
    /\ signPc = "starting"
    /\ n \in Range(signLocal.participatingNodes)
    /\ startResp[n] = "none"
    /\ \E r \in {"started", "error"} : startResp' = [startResp EXCEPT ![n] = r]
    /\ UNCHANGED <<authVars, deriveVars, auxVars, walletVars, sessions, signPc, signReq, signLocal, signRet, reported, dkgVars>>

\* after wgStart.Wait: any error writes the snapshot back with status failed
ThresholdSignAfterStart ==
    /\ signPc = "starting"
    /\ \A n \in Range(signLocal.participatingNodes) : startResp[n] # "none"
    /\ IF \E n \in Range(signLocal.participatingNodes) : startResp[n] = "error" THEN
           LET snap == [signLocal.snapshot EXCEPT !.status = "failed"] IN
           /\ signLocal' = [signLocal EXCEPT !.snapshot = snap]
           /\ sessions' = UpdateSession(sessions, SignSessionID, snap)
           /\ signRet' = SignError("failed to start signing")
           /\ signPc' = "done"
       ELSE /\ signPc' = "polling"
            /\ UNCHANGED <<sessions, signLocal, signRet>>
    /\ UNCHANGED <<authVars, deriveVars, auxVars, walletVars, signReq, startResp, reported, dkgVars>>

\* step 7, one iteration of the poll loop that ends it
ThresholdSignPoll ==
    /\ signPc = "polling"
    /\ LET updatedSession == sessions[SignSessionID] IN
       \/ /\ updatedSession.status = "completed" /\ updatedSession.signature # ""
          /\ signLocal' = [signLocal EXCEPT !.signatureHex = updatedSession.signature]
          /\ signPc' = "verify"
          /\ UNCHANGED signRet
       \/ /\ ~(updatedSession.status = "completed" /\ updatedSession.signature # "")
          /\ updatedSession.status = "failed"
          /\ signRet' = SignError("signing session failed")
          /\ signPc' = "done"
          /\ UNCHANGED signLocal
    /\ UNCHANGED <<authVars, deriveVars, auxVars, walletVars, sessions, signReq, startResp, reported, dkgVars>>

\* the deadline passes with signatureHex still empty
ThresholdSignTimeout ==
    /\ signPc = "polling"
    /\ LET snap == [signLocal.snapshot EXCEPT !.status = "failed"] IN
       /\ signLocal' = [signLocal EXCEPT !.snapshot = snap]
       /\ sessions' = UpdateSession(sessions, SignSessionID, snap)
    /\ signRet' = SignError("signing timeout")
    /\ signPc' = "done"
    /\ UNCHANGED <<authVars, deriveVars, auxVars, walletVars, signReq, startResp, reported, dkgVars>>

\* steps 8-9: decode, verify, build the response
ThresholdSignVerify ==
    /\ signPc = "verify"
    /\ IF ~SigIsHex(signLocal.signatureHex)
           THEN signRet' = SignError("failed to decode signature hex")
       ELSE LET r == verifySignatureStandard(signLocal.signatureHex,
                                             KeyMetadata(signReq.KeyID))
                valid == IF r.err THEN TRUE ELSE IF ~r.valid THEN TRUE ELSE r.valid
            IN signRet' = [err |-> "", signature |-> signLocal.signatureHex]
    /\ signPc' = "done"
    /\ UNCHANGED <<authVars, deriveVars, auxVars, walletVars, sessions, signReq, signLocal, startResp, reported, dkgVars>>

(***************************************************************************)
(* postSignTransactionHandler: POST /wallets/:walletId/sign                *)
(***************************************************************************)

WalletRequests ==
    [ walletID : SignKeys, messageHex : {"6d31", "zz", ""}, mobileNodeID : {"", "mobile-1"} ]
NoWalletReq == [walletID |-> "", messageHex |-> "", mobileNodeID |-> ""]
NoWalletLocal == [nodes |-> <<>>, i |-> 0]

\* the StartSignRequest the handler builds (post_sign_transaction.go 184-196)
WalletStartSignRequest(req) ==
    [ SessionId |-> WalletSessionID, KeyId |-> req.walletID, DerivationPath |-> "",
      ParentChainCode |-> 0 ]

\* message_hex is checked, CreateSigningSession creates the session, the
\* signer nodes are discovered
WalletSignBegin ==
    /\ walletPc = "idle" /\ walletRet = 0
    /\ signPc = "idle" /\ dkgPc = "idle" /\ dkgRuns = 0
    /\ \E req \in WalletRequests : \E discovered \in DiscoveryResults : \E discoverErr \in BOOLEAN :
        LET km == KeyMetadata(req.walletID) IN
        /\ walletReq' = req
        /\ IF req.messageHex = "" \/ ~HexDecode(req.messageHex).ok THEN
               /\ walletRet' = 400 /\ walletPc' = "done"
               /\ UNCHANGED <<sessions, walletLocal>>
           ELSE
               /\ sessions' = CreateSession(sessions, WalletSessionID, req.walletID,
                                            inferProtocol(km.Algorithm, km.Curve),
                                            km.Threshold, km.TotalNodes)
               /\ IF discoverErr THEN
                      walletRet' = 500 /\ walletPc' = "done" /\ UNCHANGED walletLocal
                  ELSE IF req.mobileNodeID = "" THEN
                      walletRet' = 200 /\ walletPc' = "done" /\ UNCHANGED walletLocal
                  ELSE
                      /\ walletLocal' = [nodes |-> SubSeq(discovered, 1, Min(km.TotalNodes, Len(discovered))),
                                         i |-> 1]
                      /\ walletPc' = "sending" /\ UNCHANGED walletRet
    /\ UNCHANGED <<authVars, deriveVars, auxVars, signVars, reported, dkgVars, walletStart>>

\* one iteration of the StartSign loop: the RPC to the next discovered
\* node; an error is logged and the loop goes on
WalletSendStartSign ==
    /\ walletPc = "sending"
    /\ walletLocal.i <= Len(walletLocal.nodes)
    /\ \E r \in {"started", "error"} :
        walletStart' = [walletStart EXCEPT ![walletLocal.nodes[walletLocal.i]] = r]
    /\ walletLocal' = [walletLocal EXCEPT !.i = @ + 1]
    /\ UNCHANGED <<authVars, deriveVars, auxVars, sessions, signVars, reported, dkgVars, walletPc, walletReq, walletRet>>

\* the handler answers 200 with the session id and status
WalletSignReturn ==
    /\ walletPc = "sending"
    /\ walletLocal.i > Len(walletLocal.nodes)
    /\ walletRet' = 200
    /\ walletPc' = "done"
    /\ UNCHANGED <<authVars, deriveVars, auxVars, sessions, signVars, reported, dkgVars, walletReq, walletLocal, walletStart>>

(***************************************************************************)
(* DKGService.ExecuteDKG                                                   *)
(***************************************************************************)

DkgRequests ==
    [ Threshold : {2, 3}, TotalNodes : {2, 3}, MobileNodeID : {"", "mobile-1"} ]
NoDkgReq == [Threshold |-> 0, TotalNodes |-> 0, MobileNodeID |-> ""]
NoDkgLocal == [nodeIDs |-> <<>>, started |-> FALSE, startErr |-> FALSE]
DkgPending == [err |-> "pending", publicKey |-> ""]
DkgError(e) == [err |-> e, publicKey |-> ""]

\* the node list of ExecuteDKG (dkg.go 91-138), or the error it returns
DkgNodeIDs(session, req) ==
    LET found == session # NoSession
        sel == IF found /\ Len(session.participants) > 0
                   THEN [err |-> "", nodes |-> session.participants]
               ELSE IF req.Threshold = 2 /\ req.TotalNodes = 2 THEN
                   IF req.MobileNodeID = ""
                       THEN [err |-> "mobile node ID is required", nodes |-> <<>>]
                       ELSE [err |-> "", nodes |-> <<req.MobileNodeID, "server-signer-p2">>]
               ELSE IF req.Threshold = 2 /\ req.TotalNodes = 3
                   THEN [err |-> "", nodes |-> <<"server-proxy-1", "server-proxy-2", "server-backup-1">>]
               ELSE IF ~found THEN [err |-> "failed to get DKG session", nodes |-> <<>>]
               ELSE [err |-> "no participating nodes in DKG session", nodes |-> <<>>]
    IN IF sel.err = "" /\ Len(sel.nodes) < req.Threshold
           THEN [err |-> "insufficient participating nodes", nodes |-> <<>>]
           ELSE sel

\* GetSigningSession and the choice of nodeIDs
ExecuteDKGBegin ==
    /\ dkgPc = "idle" /\ signPc = "idle" /\ walletPc = "idle"
    /\ dkgRuns < MaxDkgRuns
    /\ \E req \in DkgRequests :
        LET sel == DkgNodeIDs(sessions[DkgKeyID], req) IN
        /\ dkgReq' = req
        /\ IF sel.err # ""
               THEN dkgRet' = DkgError(sel.err) /\ dkgPc' = "idle" /\ dkgLocal' = NoDkgLocal
               ELSE dkgRet' = DkgPending /\ dkgPc' = "save"
                    /\ dkgLocal' = [nodeIDs |-> sel.nodes, started |-> FALSE, startErr |-> FALSE]
    /\ dkgRuns' = dkgRuns + 1
    /\ UNCHANGED <<authVars, deriveVars, auxVars, walletVars, sessions, signVars, reported, dkgOk>>

\* SaveSigningSession of a pending session under id keyID: the store
\* overwrites the stored session, or fails because one exists and the error
\* is ignored
ExecuteDKGSave ==
    /\ dkgPc = "save"
    /\ LET session == [keyID |-> DkgKeyID, protocol |-> "gg20", status |-> "pending",
                       threshold |-> dkgReq.Threshold, totalNodes |-> dkgReq.TotalNodes,
                       participants |-> dkgLocal.nodeIDs, signature |-> ""]
       IN \/ sessions' = [sessions EXCEPT ![DkgKeyID] = session]
          \/ sessions[DkgKeyID] # NoSession /\ UNCHANGED sessions
    /\ dkgPc' = "start"
    /\ UNCHANGED <<authVars, deriveVars, auxVars, walletVars, signVars, reported, dkgReq, dkgLocal, dkgRet, dkgRuns, dkgOk>>

\* SendStartDKG to the leader nodeIDs[0]; response and error are discarded
SendStartDKG ==
    /\ dkgPc = "start"
    /\ \E r \in {"started", "error"} :
        dkgLocal' = [dkgLocal EXCEPT !.started = (r = "started"), !.startErr = (r = "error")]
    /\ reported' = {r \in reported : r[1] # DkgKeyID}
    /\ dkgPc' = "polling"
    /\ UNCHANGED <<authVars, deriveVars, auxVars, walletVars, sessions, signVars, dkgReq, dkgRet, dkgRuns, dkgOk>>

\* one iteration of the poll loop that ends it
ExecuteDKGPoll ==
    /\ dkgPc = "polling"
    /\ LET sess == sessions[DkgKeyID] IN
       \/ /\ sess.status \in {"completed", "success"}
          /\ dkgRet' = IF sess.signature = "" THEN DkgError("DKG completed but public key missing")
                        ELSE [err |-> "", publicKey |-> sess.signature]
       \/ /\ sess.status = "failed"
          /\ dkgRet' = DkgError("dkg session failed")
    /\ dkgPc' = "idle"
    /\ UNCHANGED <<authVars, deriveVars, auxVars, walletVars, sessions, signVars, reported, dkgReq, dkgLocal, dkgRuns, dkgOk>>

\* the deadline passes: the call returns a timeout error
ExecuteDKGTimeout ==
    /\ dkgPc = "polling"
    /\ dkgRet' = DkgError("dkg session timeout")
    /\ dkgPc' = "idle"
    /\ UNCHANGED <<authVars, deriveVars, auxVars, walletVars, sessions, signVars, reported, dkgReq, dkgLocal, dkgRuns, dkgOk>>

(***************************************************************************)
(* ManagementServer.ReportResult and the cancel handler                    *)
(***************************************************************************)

DkgReportData == {"pub", ""}

\* ReportResult writing the reported result into the stored session itself
ReportResult_DirectWrite(ss, sessionId, resultType, data, error) ==
    IF ss[sessionId] = NoSession THEN ss
    ELSE IF error # "" THEN [ss EXCEPT ![sessionId].status = "failed"]
    ELSE [ss EXCEPT ![sessionId].status = "completed", ![sessionId].signature = data]

\* ReportResult(session_id, node_id, result_type, data, error) as a function
\* of the store
ReportResult(ss, sessionId, resultType, data, error) ==
    IF error # "" THEN FailSession(ss, sessionId) ELSE CompleteSession(ss, sessionId, data)

\* a node that was sent StartSign reports the result of the signing session
ReportSignResult(n) ==
    /\ startResp[n] # "none"
    /\ <<SignSessionID, n>> \notin reported
    /\ \E error \in {"", "sign failed"} : \E data \in SignReportData :
        /\ (error # "" => data = "")
        /\ sessions' = ReportResult(sessions, SignSessionID, "SIGNATURE", data, error)
    /\ reported' = reported \cup {<<SignSessionID, n>>}
    /\ UNCHANGED <<authVars, deriveVars, auxVars, walletVars, signVars, dkgVars>>

\* a node that the wallet handler started reports the result of its session
ReportWalletSignResult(n) ==
    /\ walletStart[n] = "started"
    /\ <<WalletSessionID, n>> \notin reported
    /\ \E error \in {"", "sign failed"} : \E data \in SignReportData :
        /\ (error # "" => data = "")
        /\ sessions' = ReportResult(sessions, WalletSessionID, "SIGNATURE", data, error)
    /\ reported' = reported \cup {<<WalletSessionID, n>>}
    /\ UNCHANGED <<authVars, deriveVars, auxVars, walletVars, signVars, dkgVars>>

\* a participant of the DKG reports DKG_PUBKEY
ReportDkgResult(n) ==
    /\ dkgLocal.started
    /\ n \in Range(dkgLocal.nodeIDs)
    /\ <<DkgKeyID, n>> \notin reported
    /\ \E error \in {"", "dkg failed"} : \E data \in DkgReportData :
        /\ (error # "" => data = "")
        /\ sessions' = ReportResult(sessions, DkgKeyID, "DKG_PUBKEY", data, error)
        /\ dkgOk' = IF error = "" THEN dkgOk \cup {n} ELSE dkgOk
    /\ reported' = reported \cup {<<DkgKeyID, n>>}
    /\ UNCHANGED <<authVars, deriveVars, auxVars, walletVars, signVars, dkgPc, dkgReq, dkgLocal, dkgRet, dkgRuns>>

\* postCancelSessionHandler: SessionManager.CancelSession on a live session
CancelSessionCall(id) ==
    /\ Mutable(sessions, id)
    /\ sessions' = CancelSession(sessions, id)
    /\ UNCHANGED <<authVars, deriveVars, auxVars, walletVars, signVars, reported, dkgVars>>

(***************************************************************************)
(* Key share storage: the participants' own stores, the service node's     *)
(* DKGService.DistributeKeyShares and InfrastructureServer.RecoverMPCShare *)
(***************************************************************************)

Participants == {"p1", "p2", "p3"}
ServiceHost == "service"
InfraHost == "infra"
Hosts == Participants \cup {ServiceHost, InfraHost}

NoRecoverResp == [code |-> "none", success |-> FALSE]
EmptyShareStore == [h \in Hosts |-> {}]

\* server-held backup shares per node: enough alone, enough with the user's
\* share, and too few
StoredBackupShares == [q \in Participants |-> CASE q = "p1" -> 3 [] q = "p2" -> 2 [] OTHER -> 0]

IdleShares ==
    /\ shareStore = EmptyShareStore
    /\ shareWrites = [q \in Participants |-> 0]
    /\ backupDb = [q \in Participants |-> 0]
    /\ recoverResp = NoRecoverResp

\* writes of the shares of the participants in `written`, all to one host
WriteShares(host, written) ==
    /\ shareStore' = [shareStore EXCEPT ![host] = @ \cup written]
    /\ shareWrites' = [q \in Participants |-> IF q \in written THEN shareWrites[q] + 1
                                                               ELSE shareWrites[q]]

\* a participant persists its own ShareRecord when the DKG completes
StoreOwnShare(q) ==
    /\ q \notin shareStore[q]
    /\ WriteShares(q, {q})
    /\ UNCHANGED <<authVars, deriveVars, sessionVars, routerVars, walVars, backupDb, recoverResp, restVars>>

\* DistributeKeyShares(keyID, keyShares) on the service node: StoreKeyShare
\* for every entry of the map, stopping at the first storage error
DistributeKeyShares ==
    \E keyShares \in SUBSET Participants : \E stored \in SUBSET keyShares :
        /\ keyShares # {}
        /\ \A q \in stored : shareWrites[q] < MaxShareWrites
        /\ WriteShares(ServiceHost, stored)
        /\ UNCHANGED <<authVars, deriveVars, sessionVars, routerVars, walVars, backupDb, recoverResp, restVars>>

\* RecoverMPCShare(key_id, node_id, share_data)
RecoverMPCShare ==
    \E keyId \in {"", "kg"} : \E nodeId \in Participants \cup {""} :
    \E shareData \in {"none", "short", "share"} : \E listErr, recoverErr, restoreErr \in BOOLEAN :
        LET have == (IF shareData = "share" THEN 1 ELSE 0) + (IF nodeId = "" THEN 0 ELSE backupDb[nodeId])
        IN
        /\ UNCHANGED <<authVars, deriveVars, sessionVars, routerVars, walVars, backupDb, restVars>>
        /\ IF keyId = "" \/ nodeId = "" \/ shareData = "short" THEN
               /\ recoverResp' = [code |-> "InvalidArgument", success |-> FALSE]
               /\ UNCHANGED <<shareStore, shareWrites>>
           ELSE IF listErr THEN
               /\ recoverResp' = [code |-> "Internal", success |-> FALSE]
               /\ UNCHANGED <<shareStore, shareWrites>>
           ELSE IF have < 3 \/ recoverErr THEN
               /\ recoverResp' = [code |-> "OK", success |-> FALSE]
               /\ UNCHANGED <<shareStore, shareWrites>>
           ELSE IF restoreErr THEN
               /\ recoverResp' = [code |-> "Internal", success |-> FALSE]
               /\ UNCHANGED <<shareStore, shareWrites>>
           ELSE
               /\ shareWrites[nodeId] < MaxShareWrites
               /\ recoverResp' = [code |-> "OK", success |-> TRUE]
               /\ WriteShares(InfraHost, {nodeId})


(***************************************************************************)
(* Protocol message relay: GRPCClient.SendSigningMessage,                  *)
(* SendKeygenMessage and RelayProtocolMessage                              *)
(***************************************************************************)

RelayNodes == {"n1", "n2"}

\* a tss message as the sender's engine hands it over: its recipients
\* (GetTo, empty for a broadcast) and its wire bytes
TssMessages == [to : {{}, {"n1"}, {"n2"}}, bytes : {"r1", "r2"}]

IdleRouter == inbox = [n \in RelayNodes |-> <<>>] /\ rpcLog = {}

Relayed == Len(inbox["n1"]) + Len(inbox["n2"])

\* the RelayMessageRequest built by SendSigningMessage / SendKeygenMessage:
\* round is 0, or -1 for a broadcast; the request has no sequence field
RelayMessageRequest(sessionID, thisNodeID, nodeID, msg, isBroadcast) ==
    [SessionId |-> sessionID, FromNodeId |-> thisNodeID, ToNodeId |-> nodeID,
     MessageData |-> msg.bytes,
     Round |-> IF msg.to = {} \/ isBroadcast THEN -1 ELSE 0,
     IsBroadcast |-> FALSE]

\* client.RelayProtocolMessage(ctx, req) on the connection of thisNodeID to
\* nodeID: the signer service of nodeID receives req
Receive(thisNodeID, nodeID, req) ==
    /\ inbox' = [inbox EXCEPT ![nodeID] = Append(@, req)]
    /\ rpcLog' = rpcLog \cup {<<thisNodeID, nodeID>>}

\* SendSigningMessage(ctx, nodeID, msg, sessionID) on node thisNodeID
SendSigningMessage ==
    /\ Relayed < MaxRelayed
    /\ \E thisNodeID \in RelayNodes : \E nodeID \in RelayNodes : \E msg \in TssMessages :
        \E connErr \in BOOLEAN :
            IF nodeID = thisNodeID \/ connErr
                THEN UNCHANGED routerVars
                ELSE Receive(thisNodeID, nodeID,
                             RelayMessageRequest(SignSessionID, thisNodeID, nodeID, msg, FALSE))
    /\ UNCHANGED <<authVars, deriveVars, sessionVars, shareVars, walVars, restVars>>

\* SendKeygenMessage(ctx, nodeID, msg, sessionID, isBroadcast) on node thisNodeID
SendKeygenMessage ==
    /\ Relayed < MaxRelayed
    /\ \E thisNodeID \in RelayNodes : \E nodeID \in RelayNodes : \E msg \in TssMessages :
        \E isBroadcast, connErr \in BOOLEAN :
            IF nodeID = thisNodeID \/ connErr
                THEN UNCHANGED routerVars
                ELSE Receive(thisNodeID, nodeID,
                             RelayMessageRequest(DkgKeyID, thisNodeID, nodeID, msg, isBroadcast))
    /\ UNCHANGED <<authVars, deriveVars, sessionVars, shareVars, walVars, restVars>>

\* requests the service relays for the mobile party
MobileRelayRequests(nodeID) ==
    [SessionId : {SignSessionID}, FromNodeId : {"mobile-1"}, ToNodeId : {nodeID},
     MessageData : {"r1"}, Round : {0, 1}, IsBroadcast : {FALSE}]

\* RelayProtocolMessage(ctx, nodeID, req): the request is passed on to the
\* signer of nodeID as it is, be it new or one that was relayed before
RelayProtocolMessage ==
    /\ Relayed < MaxRelayed
    /\ \E thisNodeID \in RelayNodes : \E nodeID \in RelayNodes :
        \E req \in MobileRelayRequests(nodeID) \cup Range(inbox[nodeID]) : \E connErr \in BOOLEAN :
            IF connErr THEN UNCHANGED routerVars
            ELSE Receive(thisNodeID, nodeID, req)
    /\ UNCHANGED <<authVars, deriveVars, sessionVars, shareVars, walVars, restVars>>

(***************************************************************************)
(* Session state store: round progress saved to PG and Redis, and the WAL  *)
(* kept as a map in process memory (walSequences + wal)                    *)
(***************************************************************************)

WalSessions == {SignSessionID, DkgKeyID}

IdleWal ==
    /\ wal = [s \in WalSessions |-> <<>>]
    /\ walSequences = [s \in WalSessions |-> 0]
    /\ roundState = [s \in WalSessions |-> 0]
    /\ roundProgress = [s \in WalSessions |-> 0]
    /\ acked = [s \in WalSessions |-> 0]
    /\ crashes = 0

\* AppendWAL: the next sequence number of the session and the round event go
\* into the in-memory map; the advance is then applied and acknowledged
AppendWAL(s) ==
    /\ acked[s] < MaxAdvances
    /\ walSequences' = [walSequences EXCEPT ![s] = @ + 1]
    /\ wal' = [wal EXCEPT ![s] = Append(@, walSequences[s] + 1)]
    /\ roundState' = [roundState EXCEPT ![s] = @ + 1]
    /\ acked' = [acked EXCEPT ![s] = @ + 1]
    /\ UNCHANGED <<authVars, deriveVars, sessionVars, shareVars, routerVars, roundProgress, crashes, restVars>>

\* SaveRoundProgress: CurrentRound is written to PG and cached in Redis
SaveRoundProgress(s) ==
    /\ roundProgress[s] # roundState[s]
    /\ roundProgress' = [roundProgress EXCEPT ![s] = roundState[s]]
    /\ UNCHANGED <<authVars, deriveVars, sessionVars, shareVars, routerVars, wal, walSequences, roundState, acked, crashes, restVars>>

\* the events of session s that ReplayWAL hands back from the map w: those
\* after the saved round
ReplayWAL(w, s) == SelectSeq(w[s], LAMBDA seq : seq > roundProgress[s])

\* the process stops and starts again: what was in memory is gone, the
\* saved progress is loaded and the events ReplayWAL returns are applied
CrashRecovery ==
    /\ crashes < MaxCrashes
    /\ crashes' = crashes + 1
    /\ wal' = [s \in WalSessions |-> <<>>]
    /\ walSequences' = [s \in WalSessions |-> roundProgress[s]]
    /\ roundState' = [s \in WalSessions |->
                        roundProgress[s] + Len(ReplayWAL(wal', s))]
    /\ UNCHANGED <<authVars, deriveVars, sessionVars, shareVars, routerVars, roundProgress, acked, restVars>>

(***************************************************************************)
(* Service discovery: ServiceRegistry over a discovery backend             *)
(***************************************************************************)

\* r.config.ID
ServiceID == "test-service"

NoRegCall == [op |-> "none", was |-> FALSE, backendCalled |-> FALSE, err |-> FALSE]

IdleRegistry ==
    /\ registered = FALSE
    /\ backend = {}
    /\ regLast = NoRegCall
    /\ regCalls = 0

\* NewWeightedLoadBalancer
IdleWeighted ==
    /\ wlbServices = <<>>
    /\ wlbExpanded = <<>>
    /\ wlbNextIndex = 0
    /\ wlbSelected = <<>>

\* the nodes a GRPCClient connects to, its goroutines, and the calls they make
ConnNodes == {"n1", "n2"}
Goroutines == {"g1", "g2"}
StatusOps == {"RelayProtocolMessage", "GetDKGStatus", "GetSignStatus"}
ConnOps == StatusOps \cup {"SendStartSign"}

\* the zero value of a map lookup: no connection, a nil client
NilClient == 0
NoConnCall == [op |-> "", nodeID |-> ""]

\* NewGRPCClient
IdleConn ==
    /\ conns = [n \in ConnNodes |-> NilClient]
    /\ signerClients = [n \in ConnNodes |-> NilClient]
    /\ liveConns = {}
    /\ nextConn = 1
    /\ connPc = [g \in Goroutines |-> "idle"]
    /\ connCall = [g \in Goroutines |-> NoConnCall]
    /\ connClient = [g \in Goroutines |-> NilClient]
    /\ rpcClients = {}

\* NewRoundRobinLoadBalancer
IdleRoundRobin ==
    /\ rrServices = <<>>
    /\ rrIndex = 0
    /\ rrLast = [op |-> "none", services |-> <<>>, result |-> "none"]

NoVerifyReq == [Signature |-> "", PublicKey |-> "", MessageHex |-> ""]
NoVerifyOut == [called |-> FALSE, err |-> "", Valid |-> FALSE]

IdleVerify == vfReq = NoVerifyReq /\ vfOut = NoVerifyOut

NoProtocolKey == [Algorithm |-> "", Curve |-> "", defaultProtocol |-> ""]

IdleProtocol == ipKey = NoProtocolKey /\ ipDkg = "none" /\ ipSign = "none" /\ ipWallet = "none"

IdleRest == IdleRegistry /\ IdleWeighted /\ IdleConn /\ IdleRoundRobin /\ IdleVerify /\ IdleProtocol

\* r.discovery.Register(ctx, r.config): the backend adds the service or fails
BackendRegister(b, fail) == IF fail THEN b ELSE b \cup {ServiceID}

\* r.discovery.Deregister(ctx, r.config.ID)
BackendDeregister(b, fail) == IF fail THEN b ELSE b \ {ServiceID}

\* Register with the flag set before the backend has answered
RegistryRegister_SetBeforeCall(reg, b, fail) ==
    IF reg THEN [registered |-> reg, backend |-> b, backendCalled |-> FALSE, err |-> FALSE]
    ELSE [registered |-> TRUE, backend |-> BackendRegister(b, fail), backendCalled |-> TRUE, err |-> fail]

\* ServiceRegistry.Register
RegistryRegister(reg, b, fail) ==
    IF reg THEN [registered |-> reg, backend |-> b, backendCalled |-> FALSE, err |-> FALSE]
    ELSE IF fail THEN [registered |-> reg, backend |-> BackendRegister(b, fail), backendCalled |-> TRUE, err |-> TRUE]
    ELSE [registered |-> TRUE, backend |-> BackendRegister(b, fail), backendCalled |-> TRUE, err |-> FALSE]

\* ServiceRegistry.Deregister
RegistryDeregister(reg, b, fail) ==
    IF ~reg THEN [registered |-> reg, backend |-> b, backendCalled |-> FALSE, err |-> FALSE]
    ELSE IF fail THEN [registered |-> reg, backend |-> BackendDeregister(b, fail), backendCalled |-> TRUE, err |-> TRUE]
    ELSE [registered |-> FALSE, backend |-> BackendDeregister(b, fail), backendCalled |-> TRUE, err |-> FALSE]

\* ServiceRegistry.Close: Deregister when registered, its error dropped, then
\* discovery.Close(), whose error is returned
RegistryClose(reg, b, fail, closeFail) ==
    LET d == RegistryDeregister(reg, b, fail) IN
    [registered |-> d.registered, backend |-> d.backend, backendCalled |-> d.backendCalled, err |-> closeFail]

Register ==
    /\ regCalls < MaxRegistryCalls
    /\ \E fail \in BOOLEAN :
        LET r == RegistryRegister(registered, backend, fail) IN
        /\ registered' = r.registered
        /\ backend' = r.backend
        /\ regLast' = [op |-> "Register", was |-> registered, backendCalled |-> r.backendCalled, err |-> r.err]
    /\ regCalls' = regCalls + 1
    /\ UNCHANGED <<authVars, deriveVars, sessionVars, shareVars, routerVars, walVars, weightedVars, connVars, roundRobinVars, verifyVars, protocolVars>>

Deregister ==
    /\ regCalls < MaxRegistryCalls
    /\ \E fail \in BOOLEAN :
        LET r == RegistryDeregister(registered, backend, fail) IN
        /\ registered' = r.registered
        /\ backend' = r.backend
        /\ regLast' = [op |-> "Deregister", was |-> registered, backendCalled |-> r.backendCalled, err |-> r.err]
    /\ regCalls' = regCalls + 1
    /\ UNCHANGED <<authVars, deriveVars, sessionVars, shareVars, routerVars, walVars, weightedVars, connVars, roundRobinVars, verifyVars, protocolVars>>

Close ==
    /\ regCalls < MaxRegistryCalls
    /\ \E fail, closeFail \in BOOLEAN :
        LET r == RegistryClose(registered, backend, fail, closeFail) IN
        /\ registered' = r.registered
        /\ backend' = r.backend
        /\ regLast' = [op |-> "Close", was |-> registered, backendCalled |-> r.backendCalled, err |-> r.err]
    /\ regCalls' = regCalls + 1
    /\ UNCHANGED <<authVars, deriveVars, sessionVars, shareVars, routerVars, walVars, weightedVars, connVars, roundRobinVars, verifyVars, protocolVars>>

\* another node's registry registers or deregisters its own service in the
\* same backend
OtherServiceID == "other-service"
OtherNodeRegisters ==
    /\ backend' = IF OtherServiceID \in backend THEN backend \ {OtherServiceID}
                                                ELSE backend \cup {OtherServiceID}
    /\ UNCHANGED <<authVars, deriveVars, sessionVars, shareVars, routerVars, walVars,
                   weightedVars, connVars, roundRobinVars, verifyVars, protocolVars, registered, regLast, regCalls>>

(***************************************************************************)
(* Service discovery: WeightedLoadBalancer                                 *)
(***************************************************************************)

\* service lists: up to two services with distinct ids, each with a weight
ServiceLists ==
    {<<>>} \cup { <<[ID |-> "s1", Weight |-> w]>> : w \in {-1, 0, 1, 2} }
          \cup { <<[ID |-> "s1", Weight |-> w1], [ID |-> "s2", Weight |-> w2]>> :
                    w1 \in {-1, 0, 1, 2}, w2 \in {-1, 0, 1, 2} }

\* the weight UpdateServices uses: 1 for a weight <= 0
EffectiveWeight(service) == IF service.Weight <= 0 THEN 1 ELSE service.Weight

\* the inner loop with a weight <= 0 left as it is
Repeated_NoDefaultWeight(service) == [i \in 1..service.Weight |-> service.ID]

\* the inner loop: the service appended weight times
Repeated(service) == [i \in 1..EffectiveWeight(service) |-> service.ID]

RECURSIVE ExpandByWeight(_, _)
ExpandByWeight(services, i) ==
    IF i > Len(services) THEN <<>>
    ELSE Repeated(services[i]) \o ExpandByWeight(services, i + 1)

\* WeightedLoadBalancer.UpdateServices(services)
WeightedUpdateServices ==
    \E services \in ServiceLists :
        /\ wlbServices' = services
        /\ wlbExpanded' = ExpandByWeight(services, 1)
        /\ wlbNextIndex' = 0
        /\ wlbSelected' = <<>>
        /\ UNCHANGED <<authVars, deriveVars, sessionVars, shareVars, routerVars, walVars, registryVars, connVars, roundRobinVars, verifyVars, protocolVars>>

\* WeightedLoadBalancer.Select(services, key); both arguments are unused
WeightedSelect ==
    /\ Len(wlbSelected) < MaxSelects
    /\ IF Len(wlbExpanded) = 0 THEN
           /\ wlbSelected' = Append(wlbSelected, "nil")
           /\ UNCHANGED wlbNextIndex
       ELSE
           /\ wlbSelected' = Append(wlbSelected, wlbExpanded[wlbNextIndex + 1])
           /\ wlbNextIndex' = (wlbNextIndex + 1) % Len(wlbExpanded)
    /\ UNCHANGED <<authVars, deriveVars, sessionVars, shareVars, routerVars, walVars, registryVars, connVars, roundRobinVars, verifyVars, protocolVars,
                   wlbServices, wlbExpanded>>

(***************************************************************************)
(* GRPCClient: the connection maps under concurrent calls.  A section of   *)
(* code that runs with c.mu held is one step.                              *)
(***************************************************************************)

nonConnVars == <<authVars, deriveVars, sessionVars, shareVars, routerVars, walVars, registryVars, weightedVars,
                 roundRobinVars, verifyVars, protocolVars>>

\* a goroutine enters a call.  RelayProtocolMessage, GetDKGStatus and
\* GetSignStatus read c.signerClients[nodeID] under RLock; SendStartSign
\* calls getOrCreateSignerConnection at once
ConnCallBegin(g) ==
    /\ connPc[g] = "idle"
    /\ \E op \in ConnOps, nodeID \in ConnNodes :
        /\ connCall' = [connCall EXCEPT ![g] = [op |-> op, nodeID |-> nodeID]]
        /\ IF op \in StatusOps /\ signerClients[nodeID] # NilClient
              THEN /\ connClient' = [connClient EXCEPT ![g] = signerClients[nodeID]]
                   /\ connPc' = [connPc EXCEPT ![g] = "invoke"]
              ELSE /\ connClient' = [connClient EXCEPT ![g] = NilClient]
                   /\ connPc' = [connPc EXCEPT ![g] = "getOrCreate"]
    /\ UNCHANGED <<conns, signerClients, liveConns, nextConn, rpcClients, nonConnVars>>

\* getOrCreateSignerConnection: the first lookup, under RLock
GetOrCreateLookup(g) ==
    /\ connPc[g] = "getOrCreate"
    /\ IF signerClients[connCall[g].nodeID] # NilClient
          THEN /\ connClient' = [connClient EXCEPT ![g] = signerClients[connCall[g].nodeID]]
               /\ connPc' = [connPc EXCEPT ![g] = "returned"]
          ELSE /\ connPc' = [connPc EXCEPT ![g] = "getNode"]
               /\ UNCHANGED connClient
    /\ UNCHANGED <<conns, signerClients, liveConns, nextConn, connCall, rpcClients, nonConnVars>>

\* getOrCreateSignerConnection: the node is looked up with no lock held
GetNodeInfo(g) ==
    /\ connPc[g] = "getNode"
    /\ \E found \in BOOLEAN :
        connPc' = [connPc EXCEPT ![g] = IF found THEN "dial" ELSE "idle"]
    /\ UNCHANGED <<conns, signerClients, liveConns, nextConn, connCall, connClient, rpcClients, nonConnVars>>

\* getOrCreateSignerConnection: the second lookup and the dial, under Lock
DialUnderLock(g) ==
    /\ connPc[g] = "dial"
    /\ LET nodeID == connCall[g].nodeID IN
       IF signerClients[nodeID] # NilClient
          THEN /\ connClient' = [connClient EXCEPT ![g] = signerClients[nodeID]]
               /\ connPc' = [connPc EXCEPT ![g] = "returned"]
               /\ UNCHANGED <<conns, signerClients, liveConns, nextConn>>
          ELSE \E dialed \in BOOLEAN :
               IF dialed /\ nextConn <= MaxDials
                  THEN /\ conns' = [conns EXCEPT ![nodeID] = nextConn]
                       /\ signerClients' = [signerClients EXCEPT ![nodeID] = nextConn]
                       /\ liveConns' = liveConns \cup {[nodeID |-> nodeID, conn |-> nextConn]}
                       /\ nextConn' = nextConn + 1
                       /\ connClient' = [connClient EXCEPT ![g] = nextConn]
                       /\ connPc' = [connPc EXCEPT ![g] = "returned"]
                  ELSE /\ connPc' = [connPc EXCEPT ![g] = "idle"]
                       /\ UNCHANGED <<conns, signerClients, liveConns, nextConn, connClient>>
    /\ UNCHANGED <<connCall, rpcClients, nonConnVars>>

\* getOrCreateSignerConnection has returned a client.  SendStartSign uses
\* the client it got; the three others drop it and read the map again
AfterGetOrCreate(g) ==
    /\ connPc[g] = "returned"
    /\ connClient' = [connClient EXCEPT ![g] =
                         IF connCall[g].op \in StatusOps
                            THEN signerClients[connCall[g].nodeID]
                            ELSE connClient[g]]
    /\ connPc' = [connPc EXCEPT ![g] = "invoke"]
    /\ UNCHANGED <<conns, signerClients, liveConns, nextConn, connCall, rpcClients, nonConnVars>>

\* the RPC is invoked on the client held in the local variable
InvokeRpc(g) ==
    /\ connPc[g] = "invoke"
    /\ rpcClients' = rpcClients \cup {connClient[g]}
    /\ connPc' = [connPc EXCEPT ![g] = "idle"]
    /\ UNCHANGED <<conns, signerClients, liveConns, nextConn, connCall, connClient, nonConnVars>>

\* CloseConnection(nodeID), under Lock; conn.Close() may return an error
CloseConnection ==
    \E nodeID \in ConnNodes, closeErr \in BOOLEAN :
        /\ conns[nodeID] # NilClient
        /\ liveConns' = liveConns \ {[nodeID |-> nodeID, conn |-> conns[nodeID]]}
        /\ IF closeErr
              THEN UNCHANGED <<conns, signerClients>>
              ELSE /\ conns' = [conns EXCEPT ![nodeID] = NilClient]
                   /\ signerClients' = [signerClients EXCEPT ![nodeID] = NilClient]
        /\ UNCHANGED <<nextConn, connPc, connCall, connClient, rpcClients, nonConnVars>>

\* Close(), under Lock: every connection is closed and both maps are replaced
CloseAll ==
    /\ \E n \in ConnNodes : conns[n] # NilClient
    /\ liveConns' = liveConns \ {[nodeID |-> n, conn |-> conns[n]] : n \in ConnNodes}
    /\ conns' = [n \in ConnNodes |-> NilClient]
    /\ signerClients' = [n \in ConnNodes |-> NilClient]
    /\ UNCHANGED <<nextConn, connPc, connCall, connClient, rpcClients, nonConnVars>>

(***************************************************************************)
(* Service discovery: RoundRobinLoadBalancer                               *)
(***************************************************************************)

\* the services of a list, by id
ServicePool == {"s1", "s2", "s3"}

\* the lists a caller may pass: up to MaxServices services, each once
RoundRobinLists ==
    { l \in SeqsUpTo(ServicePool, MaxServices) : \A i, j \in 1..Len(l) : l[i] = l[j] => i = j }

\* RoundRobinLoadBalancer.UpdateServices(services): the list is copied, the
\* index is left as it is
RoundRobinUpdateServices ==
    \E services \in RoundRobinLists :
        /\ rrServices' = services
        /\ rrLast' = [op |-> "UpdateServices", services |-> services, result |-> "none"]
        /\ UNCHANGED <<rrIndex, authVars, deriveVars, sessionVars, shareVars, routerVars, walVars,
                       registryVars, weightedVars, connVars, verifyVars, protocolVars>>

\* RoundRobinLoadBalancer.Select(services, key): "nil", the id of a service,
\* or "panic" when lb.services[lb.index] is out of range
RoundRobinSelect ==
    \E services \in RoundRobinLists :
        /\ IF Len(services) = 0 THEN
               /\ rrLast' = [op |-> "Select", services |-> services, result |-> "nil"]
               /\ UNCHANGED <<rrServices, rrIndex>>
           ELSE
               LET local == IF Len(services) # Len(rrServices) THEN services ELSE rrServices IN
               /\ rrServices' = local
               /\ IF rrIndex >= Len(local) THEN
                      /\ rrLast' = [op |-> "Select", services |-> services, result |-> "panic"]
                      /\ UNCHANGED rrIndex
                  ELSE
                      /\ rrLast' = [op |-> "Select", services |-> services, result |-> local[rrIndex + 1]]
                      /\ rrIndex' = (rrIndex + 1) % Len(local)
        /\ UNCHANGED <<authVars, deriveVars, sessionVars, shareVars, routerVars, walVars,
                       registryVars, weightedVars, connVars, verifyVars, protocolVars>>

(***************************************************************************)
(* Specification of the coordinator: signing, key generation, reports and  *)
(* cancellation over one session store                                     *)
(***************************************************************************)

IdleAuth == gateReq = NoGate /\ gateOut = "none" /\ gateEvals = 0 /\ pkIn = NoPasskey /\ pkOut = "none"
IdleDerive == dvIn = NoDerive /\ dvOut = DerivePending /\ dvRefs = NoRefs
IdleSessions ==
    /\ sessions = [id \in SessionIDs |-> NoSession]
    /\ signPc = "idle" /\ signReq = NoSignReq /\ signLocal = NoLocal
    /\ startResp = NoStartResp /\ signRet = SignPending
    /\ reported = {}
    /\ dkgPc = "idle" /\ dkgReq = NoDkgReq /\ dkgLocal = NoDkgLocal
    /\ dkgRet = DkgPending /\ dkgRuns = 0 /\ dkgOk = {}
    /\ walletPc = "idle" /\ walletReq = NoWalletReq /\ walletLocal = NoWalletLocal
    /\ walletStart = NoStartResp /\ walletRet = 0

Init == IdleAuth /\ IdleDerive /\ IdleSessions /\ IdleShares /\ IdleRouter /\ IdleWal /\ IdleRest

Next ==
    \/ ThresholdSignBegin
    \/ ThresholdSignSelect
    \/ \E n \in Nodes : SendStartSign(n)
    \/ ThresholdSignAfterStart
    \/ ThresholdSignPoll
    \/ ThresholdSignTimeout
    \/ ThresholdSignVerify
    \/ \E n \in Nodes : ReportSignResult(n)
    \/ ExecuteDKGBegin
    \/ ExecuteDKGSave
    \/ SendStartDKG
    \/ ExecuteDKGPoll
    \/ ExecuteDKGTimeout
    \/ \E n \in Nodes : ReportDkgResult(n)
    \/ \E id \in SessionIDs : CancelSessionCall(id)
    \/ WalletSignBegin
    \/ WalletSendStartSign
    \/ WalletSignReturn
    \/ \E n \in Nodes : ReportWalletSignResult(n)

Spec == Init /\ [][Next]_vars

(***************************************************************************)
(* Specification of the authorisation gate: the inputs are drawn in Init,  *)
(* the actions apply the functions.                                        *)
(***************************************************************************)
InitAuth ==
    /\ gateOut = "none"
    /\ gateEvals = 0
    /\ pkOut = "none"
    /\ IdleDerive /\ IdleSessions /\ IdleShares /\ IdleRouter /\ IdleWal /\ IdleRest
    /\ \/ gateReq \in GateInputs /\ pkIn = NoPasskey
       \/ gateReq = NoGate /\ pkIn \in PasskeyInputs

CheckGuardianPolicyCall ==
    /\ pkIn = NoPasskey
    /\ gateOut = "none"
    /\ gateOut' = checkGuardianPolicy(gateReq)
    /\ gateEvals' = 1
    /\ UNCHANGED <<gateReq, pkIn, pkOut, deriveVars, sessionVars, auxVars>>

VerifyPasskeyCall ==
    /\ pkIn # NoPasskey
    /\ pkOut = "none"
    /\ pkOut' = VerifyPasskeySignature(pkIn.publicKeyHex, pkIn.signature, pkIn.authData,
                                       pkIn.clientDataJSON, pkIn.expectedChallenge)
    /\ UNCHANGED <<gateReq, gateOut, gateEvals, pkIn, deriveVars, sessionVars, auxVars>>

\* the orderings of a token list
TokenOrders(tokens) ==
    { [i \in 1..Len(tokens) |-> tokens[f[i]]] :
        f \in {g \in [1..Len(tokens) -> 1..Len(tokens)] :
                  \A i, j \in 1..Len(tokens) : g[i] = g[j] => i = j} }

\* the same request is checked again, its AuthTokens in any order; the
\* lookups answer as before
CheckGuardianPolicyAgain ==
    /\ pkIn = NoPasskey
    /\ gateOut # "none"
    /\ gateEvals < MaxGateEvals
    /\ gateEvals' = gateEvals + 1
    /\ \E tokens \in TokenOrders(gateReq.tokens) :
        /\ gateReq' = [gateReq EXCEPT !.tokens = tokens]
        /\ gateOut' = checkGuardianPolicy(gateReq')
    /\ UNCHANGED <<pkIn, pkOut, deriveVars, sessionVars, auxVars>>

NextAuth == CheckGuardianPolicyCall \/ VerifyPasskeyCall

SpecAuth == InitAuth /\ [][NextAuth]_vars

(* Specification of the gate evaluated more than once: the requests whose
   message decodes and whose lookups succeed, so that the decision rests on
   the token loop *)

GateOrderInputs ==
    { g \in GateInputs : /\ g.message = "" /\ g.messageHex = "6d31"
                         /\ ~g.listErr /\ ~g.policyErr }

InitGateOrder ==
    /\ gateOut = "none"
    /\ gateEvals = 0
    /\ pkOut = "none"
    /\ pkIn = NoPasskey
    /\ IdleDerive /\ IdleSessions /\ IdleShares /\ IdleRouter /\ IdleWal /\ IdleRest
    /\ gateReq \in GateOrderInputs

NextGateOrder == CheckGuardianPolicyCall \/ CheckGuardianPolicyAgain

SpecGateOrder == InitGateOrder /\ [][NextGateOrder]_vars

(***************************************************************************)
(* Specification of derivation: Init draws a bundle, a chain code and a    *)
(* path; the action derives.                                               *)
(***************************************************************************)
InitDerive ==
    /\ IdleAuth /\ IdleSessions /\ IdleShares /\ IdleRouter /\ IdleWal /\ IdleRest
    /\ dvIn \in DeriveInputs
    /\ dvOut = DerivePending
    /\ dvRefs = NoRefs

DeriveCall ==
    /\ dvIn # NoDerive
    /\ dvOut = DerivePending
    /\ dvOut' = Derive(dvIn.scheme, ParentBundle(dvIn, dvIn.me), dvIn.cc, dvIn.path)
    /\ dvRefs' = DeriveRefs(dvIn.scheme, dvIn.path, dvOut'.err = "")
    /\ UNCHANGED <<authVars, dvIn, sessionVars, auxVars>>

NextDerive == DeriveCall

SpecDerive == InitDerive /\ [][NextDerive]_vars

(* Specification of the key share stores *)

InitShares ==
    /\ IdleAuth /\ IdleDerive /\ IdleSessions /\ IdleRouter /\ IdleWal /\ IdleRest
    /\ shareStore = EmptyShareStore
    /\ shareWrites = [q \in Participants |-> 0]
    /\ backupDb = StoredBackupShares
    /\ recoverResp = NoRecoverResp

NextShares ==
    \/ \E q \in Participants : StoreOwnShare(q)
    \/ DistributeKeyShares
    \/ RecoverMPCShare

SpecShares == InitShares /\ [][NextShares]_vars

(* Specification of the message relay *)

InitRouter == IdleAuth /\ IdleDerive /\ IdleSessions /\ IdleShares /\ IdleRouter /\ IdleWal /\ IdleRest

NextRouter == SendSigningMessage \/ SendKeygenMessage \/ RelayProtocolMessage

SpecRouter == InitRouter /\ [][NextRouter]_vars

(* Specification of the session state store *)

InitWal == IdleAuth /\ IdleDerive /\ IdleSessions /\ IdleShares /\ IdleRouter /\ IdleWal /\ IdleRest

NextWal ==
    \/ \E s \in WalSessions : AppendWAL(s)
    \/ \E s \in WalSessions : SaveRoundProgress(s)
    \/ CrashRecovery

SpecWal == InitWal /\ [][NextWal]_vars

(* Specification of the service registry *)

InitRegistry ==
    /\ IdleAuth /\ IdleDerive /\ IdleSessions /\ IdleShares /\ IdleRouter /\ IdleWal
    /\ IdleRegistry /\ IdleWeighted /\ IdleConn /\ IdleRoundRobin /\ IdleVerify /\ IdleProtocol

NextRegistry == Register \/ Deregister \/ Close \/ OtherNodeRegisters

SpecRegistry == InitRegistry /\ [][NextRegistry]_vars

(* Specification of the weighted load balancer *)

InitWeighted ==
    /\ IdleAuth /\ IdleDerive /\ IdleSessions /\ IdleShares /\ IdleRouter /\ IdleWal
    /\ IdleRegistry /\ IdleWeighted /\ IdleConn /\ IdleRoundRobin /\ IdleVerify /\ IdleProtocol

NextWeighted == WeightedUpdateServices \/ WeightedSelect

SpecWeighted == InitWeighted /\ [][NextWeighted]_vars

(* Specification of the connection maps of one GRPCClient *)

InitConn ==
    /\ IdleAuth /\ IdleDerive /\ IdleSessions /\ IdleShares /\ IdleRouter /\ IdleWal
    /\ IdleRegistry /\ IdleWeighted /\ IdleConn /\ IdleRoundRobin /\ IdleVerify /\ IdleProtocol

NextConn ==
    \/ \E g \in Goroutines : ConnCallBegin(g)
    \/ \E g \in Goroutines : GetOrCreateLookup(g)
    \/ \E g \in Goroutines : GetNodeInfo(g)
    \/ \E g \in Goroutines : DialUnderLock(g)
    \/ \E g \in Goroutines : AfterGetOrCreate(g)
    \/ \E g \in Goroutines : InvokeRpc(g)
    \/ CloseConnection
    \/ CloseAll

SpecConn == InitConn /\ [][NextConn]_vars

(* Specification of the round-robin load balancer *)

InitRoundRobin ==
    /\ IdleAuth /\ IdleDerive /\ IdleSessions /\ IdleShares /\ IdleRouter /\ IdleWal
    /\ IdleRegistry /\ IdleWeighted /\ IdleConn /\ IdleRoundRobin /\ IdleVerify /\ IdleProtocol

NextRoundRobin == RoundRobinUpdateServices \/ RoundRobinSelect

SpecRoundRobin == InitRoundRobin /\ [][NextRoundRobin]_vars

(* Specification of Service.Verify: the request is any of VerifyRequests *)

InitVerify ==
    /\ IdleAuth /\ IdleDerive /\ IdleSessions /\ IdleShares /\ IdleRouter /\ IdleWal
    /\ IdleRegistry /\ IdleWeighted /\ IdleConn /\ IdleRoundRobin /\ IdleProtocol
    /\ vfReq \in VerifyRequests
    /\ vfOut = NoVerifyOut

NextVerify == VerifyCall

SpecVerify == InitVerify /\ [][NextVerify]_vars

(* Specification of the protocol inference: the key is any of the spellings *)

InitProtocol ==
    /\ IdleAuth /\ IdleDerive /\ IdleSessions /\ IdleShares /\ IdleRouter /\ IdleWal
    /\ IdleRegistry /\ IdleWeighted /\ IdleConn /\ IdleRoundRobin /\ IdleVerify
    /\ ipKey \in [Algorithm : AlgorithmNames, Curve : CurveNames, defaultProtocol : DefaultProtocols]
    /\ ipDkg = "none" /\ ipSign = "none" /\ ipWallet = "none"

NextProtocol == RecordDkgProtocol \/ SignInferProtocol \/ WalletInferProtocol

SpecProtocol == InitProtocol /\ [][NextProtocol]_vars


(***************************************************************************)
(* Claims about the authorisation gate                                     *)
(***************************************************************************)

\* the distinct credentials (public keys, compared without case) of the
\* request that are on the key's allow-list and carry a signature that
\* verifies over the request's message
DistinctValidCredentials(g) ==
    LET m == MsgToVerify(g) IN
    IF g.listErr \/ ~m.ok THEN {}
    ELSE { ToLower(t.pk) : t \in { x \in Range(g.tokens) :
                /\ ToLower(x.pk) \in AllowedKeysMap(g.allowedKeys)
                /\ TokenSigValid(ToLower(x.pk), m.bytes, x.sig) } }

\* m of the key: min_signatures of its stored policy, 1 when it has none
KeyPolicyM(g) == IF ~g.hasPolicy THEN 1 ELSE g.policy

\* C2: whenever the gate returns a decision, it admits the request if and
\* only if the number of distinct credentials with a valid assertion is at
\* least m, m being the min_signatures of the key's policy (1 without one).
C2_AdmitIffThreshold ==
    gateOut \in {"ok", "insufficient"} =>
        ((gateOut = "ok") <=> (Cardinality(DistinctValidCredentials(gateReq)) >= KeyPolicyM(gateReq)))

\* The same statement with m taken from what the policy lookup returned
\* (1 when the lookup failed); it holds of checkGuardianPolicy.
GateAdmitsIffLoadedThreshold ==
    gateOut # "none" =>
        ((gateOut = "ok") <=> (Cardinality(DistinctValidCredentials(gateReq)) >= MinSignaturesOf(gateReq)))

\* C3: an assertion is accepted as valid only if its client data type is
\* "webauthn.get", its challenge equals the expected request digest, the
\* User Present flag is set and its signature over
\* authenticator_data || SHA256(client_data_json) verifies under the
\* registered public key.
C3_AcceptedOnlyIfAllChecks ==
    pkOut = "ok" =>
        /\ pkIn.clientDataJSON.parses
        /\ pkIn.clientDataJSON.type = "webauthn.get"
        /\ TrimPad(pkIn.clientDataJSON.challenge) = TrimPad(pkIn.expectedChallenge)
        /\ pkIn.authData.parses /\ pkIn.authData.up
        /\ pkIn.signature.wellFormed
        /\ pkIn.signature.by = pkIn.publicKeyHex
        /\ pkIn.signature.over = SignedData(pkIn.authData, pkIn.clientDataJSON)

(***************************************************************************)
(* Claims about derivation                                                 *)
(***************************************************************************)

\* the indices of a path that parses
IndicesOf(path) == parseDerivationPath(path).indices

\* the sum of the per-step il values along a path: each step hashes the
\* public key and chain code produced by the previous step
RECURSIVE SumIL(_, _, _, _)
SumIL(pub, cc, indices, i) ==
    IF i > Len(indices) THEN 0
    ELSE LET il == HashIL(pub, cc, indices[i]) IN
         il + SumIL(PointAdd(pub, ScalarBaseMult(il)), HashIR(pub, cc, indices[i]), indices, i + 1)

\* modular inverse in the scalar field
Inv(a) == CHOOSE b \in 1..(GroupOrder - 1) : (a * b) % GroupOrder = 1

\* Lagrange coefficient at 0 of participant i within the signer set S
RECURSIVE LagrangeProd(_, _, _)
LagrangeProd(i, S, rest) ==
    IF rest = {} THEN 1
    ELSE LET j == CHOOSE x \in rest : TRUE IN
         (Ks[j] * Inv((Ks[j] - Ks[i] + GroupOrder) % GroupOrder) * LagrangeProd(i, S, rest \ {j})) % GroupOrder
Lagrange(i, S) == LagrangeProd(i, S, S \ {i})

RECURSIVE WeightedSum(_, _, _)
WeightedSum(x, S, rest) ==
    IF rest = {} THEN 0
    ELSE LET i == CHOOSE y \in rest : TRUE IN
         (Lagrange(i, S) * x[i] + WeightedSum(x, S, rest \ {i})) % GroupOrder
\* the secret interpolated from the shares x of the signer set S
Reconstruct(x, S) == WeightedSum(x, S, S)

\* the qualified sets: t+1 = 2 participants
QualifiedSets == {S \in SUBSET (1..NumParties) : Cardinality(S) = 2}

\* C6: for a consistent parent bundle and a path of k >= 1 non-hardened
\* indices, a derived bundle has local scalar x_i + sum(il) mod n, group
\* key P + sum(il)*G and every public share X_j + sum(il)*G; every
\* participant's derived scalar matches its derived public share, and every
\* qualified set reconstructs the parent secret plus sum(il).
C6_DerivationHomomorphism ==
    (/\ dvOut.err # "pending" /\ dvOut.err = ""
     /\ dvIn.variant = "consistent"
     /\ Len(IndicesOf(dvIn.path)) >= 1) =>
        LET parent == ParentBundle(dvIn, dvIn.me)
            sum == SumIL(parent.Pub, dvIn.cc, IndicesOf(dvIn.path), 1)
            delta == ScalarBaseMult(sum)
            child == dvOut.child
            out == [j \in 1..NumParties |-> Derive(dvIn.scheme, ParentBundle(dvIn, j), dvIn.cc, dvIn.path)]
        IN  /\ child.Xi = (parent.Xi + sum) % GroupOrder
            /\ child.Pub = PointAdd(parent.Pub, delta)
            /\ \A j \in 1..NumParties : child.BigXj[j] = PointAdd(parent.BigXj[j], delta)
            /\ \A j \in 1..NumParties :
                    /\ out[j].err = ""
                    /\ ScalarBaseMult(out[j].child.Xi) = child.BigXj[j]
            /\ \A S \in QualifiedSets :
                    Reconstruct([j \in 1..NumParties |-> out[j].child.Xi], S)
                        = (dvIn.a0 + sum) % GroupOrder

\* a two-step derivation of a consistent ECDSA bundle succeeded
C6_Witness ==
    /\ dvOut.err # "pending" /\ dvOut.err = ""
    /\ dvIn.variant = "consistent" /\ dvIn.scheme = "ecdsa"
    /\ Len(IndicesOf(dvIn.path)) = 2

\* C7: every successful derivation has located the local participant in
\* the index set and found x_i'*G equal to its derived public share.
C7_LocalCheckOnSuccess ==
    (/\ dvOut.err # "pending" /\ dvOut.err = ""
     /\ Len(IndicesOf(dvIn.path)) >= 1) =>
        LET child == dvOut.child
            myIndex == MyIndex(child.Ks, child.ShareID)
        IN  /\ myIndex >= 1
            /\ ScalarBaseMult(child.Xi) = child.BigXj[myIndex]

\* a path that contains an index >= 2^31 never yields a bundle
HardenedPathNeverDerives ==
    (/\ dvOut.err # "pending"
     /\ parseDerivationPath(dvIn.path).err = ""
     /\ \E i \in DOMAIN IndicesOf(dvIn.path) : IsHardened(IndicesOf(dvIn.path)[i]))
        => dvOut.err # ""

(***************************************************************************)
(* Claims about the coordinator                                            *)
(***************************************************************************)

\* the sign request as the guardian gate would see it under the key's
\* stored policy and allow-list
GateViewOf(req) ==
    [ hasPolicy |-> TRUE, policy |-> KeyPolicy, policyErr |-> FALSE, allowedKeys |-> KeyAllowList, listErr |-> FALSE,
      message |-> "", messageHex |-> req.MessageHex, tokens |-> req.AuthTokens ]

\* the request carries fewer than m valid assertions
UnderAuthorised(req) ==
    Cardinality(DistinctValidCredentials(GateViewOf(req))) < KeyPolicyM(GateViewOf(req))

StartSignSent == \E n \in Nodes : startResp[n] # "none"

\* C1: a sign request with fewer than m valid assertions creates no session
\* record, has no StartSign sent to any participant, and is rejected with an
\* authorisation error.
C1_UnauthorisedSignNeverReachesEngine ==
    (signPc # "idle" /\ UnderAuthorised(signReq)) =>
        /\ sessions[SignSessionID] = NoSession
        /\ ~StartSignSent
        /\ (signPc = "done" => signRet.err = "AuthDenied")

\* C4: a session whose status is completed, failed or cancelled is never
\* changed by any later step (report, write-back of a snapshot, cancel,
\* re-save by ExecuteDKG).
C4_TerminalSessionImmutable ==
    [][\A id \in SessionIDs : IsTerminal(sessions[id].status) => sessions'[id] = sessions[id]]_vars

\* C5: ThresholdSign returns a signature only if the signature verifies
\* under the key's public key for the signed message.
C5_ReturnedSignatureVerifies ==
    signRet.err = "" => SigVerifies(signRet.signature)

\* the path parses and contains an index >= 2^31
HasHardenedIndex(path) ==
    /\ parseDerivationPath(path).err = ""
    /\ \E i \in DOMAIN IndicesOf(path) : IsHardened(IndicesOf(path)[i])

\* C8: a sign request whose derivation path contains a hardened index fails
\* before any StartSign is sent.
C8_HardenedPathNeverStartsSigning ==
    StartSignSent => ~HasHardenedIndex(PathOf(EffectivePath(signReq)))

\* C9: a signing session that is started has exactly Threshold (= t+1)
\* participants, and a DKG that is started has exactly TotalNodes.
C9_ParticipantCountMatchesKind ==
    /\ StartSignSent =>
           Len(sessions[SignSessionID].participants) = KeyMetadata(signReq.KeyID).Threshold
    /\ dkgLocal.started => Len(dkgLocal.nodeIDs) = dkgReq.TotalNodes

\* C10: the DKG session is completed, and ExecuteDKG returns the public
\* key, only after every participant of the session has reported success.
C10_DkgCompletesOnlyAfterAllReported ==
    /\ sessions[DkgKeyID].status = "completed" =>
           Range(sessions[DkgKeyID].participants) \subseteq dkgOk
    /\ dkgRet.err = "" => Range(dkgLocal.nodeIDs) \subseteq dkgOk

WalletStartSignSent == \E n \in Nodes : walletStart[n] # "none"

\* C12: a session whose wait deadline has passed is stored as failed (or
\* was ended otherwise), for ThresholdSign and for ExecuteDKG, and a session
\* whose creator has returned without sending any StartSign is not left
\* pending.
C12_ExpiredSessionIsFailed ==
    /\ (signPc = "done" /\ signRet.err = "signing timeout") => IsTerminal(sessions[SignSessionID].status)
    /\ (dkgPc = "idle" /\ dkgRet.err = "dkg session timeout") => IsTerminal(sessions[DkgKeyID].status)
    /\ (signPc = "done" /\ ~StartSignSent) => sessions[SignSessionID].status # "pending"
    /\ (walletPc = "done" /\ ~WalletStartSignSent) => sessions[WalletSessionID].status # "pending"

(***************************************************************************)
(* Claims about key share storage                                          *)
(***************************************************************************)

\* C13: the share of a participant is held only by that participant's own
\* node and is written exactly once; neither the service node nor any other
\* host ever stores it.
C13_ShareOnlyAtOwnerWrittenOnce ==
    /\ \A h \in Hosts : \A q \in shareStore[h] : h = q
    /\ \A q \in Participants : shareWrites[q] <= 1

(***************************************************************************)
(* Claims about signing with derived keys                                  *)
(***************************************************************************)

IsDerivedKey(k) == KeyMetadata(k).parent # ""

\* what a StartSign request for the derived key k must carry
CarriesRootContext(r, k) ==
    /\ r.KeyId = KeyMetadata(k).parent
    /\ r.DerivationPath # ""
    /\ r.ParentChainCode = 32

\* C14: every StartSign sent for a derived key, by ThresholdSign or by the
\* wallet sign handler, carries the root key id, a non-empty derivation path
\* and the root key's 32-byte chain code.
C14_DerivedKeySignCarriesRootContext ==
    /\ (StartSignSent /\ IsDerivedKey(signReq.KeyID))
           => CarriesRootContext(StartSignRequest(signReq), signReq.KeyID)
    /\ (WalletStartSignSent /\ IsDerivedKey(walletReq.walletID))
           => CarriesRootContext(WalletStartSignRequest(walletReq), walletReq.walletID)

(***************************************************************************)
(* Claims about failures of the start RPC                                  *)
(***************************************************************************)

StartSignFailed == \E n \in Nodes : startResp[n] = "error"
WalletStartSignFailed == \E n \in Nodes : walletStart[n] = "error"

\* C15, ThresholdSign: a failed StartSign makes the call return the start
\* error and leaves the session failed.
C15_ThresholdSignSurfacesStartFailure ==
    (signPc \in {"polling", "done"} /\ StartSignFailed)
        => /\ signRet.err = "failed to start signing"
           /\ IsTerminal(sessions[SignSessionID].status)

\* C15: whenever StartDKG or StartSign fails, the initiating operation
\* returns an error for the start failure and its session ends failed.
C15_StartFailureSurfacedAndSessionFailed ==
    /\ C15_ThresholdSignSurfacesStartFailure
    /\ (dkgPc = "idle" /\ dkgLocal.startErr)
           => /\ dkgRet.err = "failed to start dkg"
              /\ sessions[DkgKeyID].status = "failed"
    /\ (walletPc = "done" /\ WalletStartSignFailed)
           => /\ walletRet # 200
              /\ sessions[WalletSessionID].status = "failed"

(***************************************************************************)
(* Claims about the message relay                                          *)
(***************************************************************************)

\* the key of a relayed message: session, sender, round and sequence; the
\* request carries no sequence, which reads as 0 on the wire
MessageKey(req) == <<req.SessionId, req.FromNodeId, req.Round, 0>>

\* C16: each (session_id, from, round, sequence) is handed on at most once:
\* no node receives two requests with the same key.
C16_EachMessageKeyDeliveredAtMostOnce ==
    \A n \in RelayNodes : \A i, j \in 1..Len(inbox[n]) :
        i # j => MessageKey(inbox[n][i]) # MessageKey(inbox[n][j])

\* C17: per session and sender, the round numbers a node receives never
\* decrease.
C17_ReceivedRoundsNeverDecrease ==
    \A n \in RelayNodes : \A i, j \in 1..Len(inbox[n]) :
        (i < j /\ inbox[n][i].SessionId = inbox[n][j].SessionId
               /\ inbox[n][i].FromNodeId = inbox[n][j].FromNodeId)
            => inbox[n][i].Round <= inbox[n][j].Round

(***************************************************************************)
(* Claims about crash recovery                                             *)
(***************************************************************************)

\* C18: after a crash between advances and the replay of the WAL, a session
\* is in the state of an uninterrupted run (every acknowledged advance
\* applied); every acknowledged advance that is not yet in the saved
\* progress has its WAL record, also after the crash.
C18_RecoveryEqualsUninterruptedRun ==
    \A s \in WalSessions :
        /\ roundState[s] = acked[s]
        /\ \A k \in (roundProgress[s] + 1)..acked[s] : k \in Range(wal[s])

(***************************************************************************)
(* Claims about the range of il                                            *)
(***************************************************************************)

\* the il values hashed at the steps of a derivation along a path
RECURSIVE ILsAlong(_, _, _, _)
ILsAlong(pub, cc, indices, i) ==
    IF i > Len(indices) THEN <<>>
    ELSE LET il == HashIL(pub, cc, indices[i]) IN
         <<il>> \o ILsAlong(PointAdd(pub, ScalarBaseMult(il)), HashIR(pub, cc, indices[i]), indices, i + 1)

\* C19, secp256k1: a derivation that returns a bundle has used only il values
\* in [1, n-1].
C19_ECDSA_ILInRange ==
    (dvIn # NoDerive /\ dvIn.scheme = "ecdsa" /\ dvOut.err = "") =>
        \A k \in DOMAIN ILsAlong(ParentBundle(dvIn, dvIn.me).Pub, dvIn.cc, IndicesOf(dvIn.path), 1) :
            ILsAlong(ParentBundle(dvIn, dvIn.me).Pub, dvIn.cc, IndicesOf(dvIn.path), 1)[k]
                \in 1..(GroupOrder - 1)

\* C19: on both curves, a derivation that returns a bundle has used only il
\* values in [1, n-1]; a step with il = 0 or il >= n makes the derivation
\* fail.
C19_DeriveRejectsILOutOfRange ==
    (dvIn # NoDerive /\ dvOut.err = "") =>
        \A k \in DOMAIN ILsAlong(ParentBundle(dvIn, dvIn.me).Pub, dvIn.cc, IndicesOf(dvIn.path), 1) :
            ILsAlong(ParentBundle(dvIn, dvIn.me).Pub, dvIn.cc, IndicesOf(dvIn.path), 1)[k]
                \in 1..(GroupOrder - 1)

(***************************************************************************)
(* Claims about the frame of derive                                        *)
(***************************************************************************)

RefsOf(r) == {r[f] : f \in DOMAIN r} \ {"none"}

\* C20, first half: derive assigns to no object of its input.
C20_DeriveWritesNoParentObject ==
    dvRefs.written \cap RefsOf(ParentRefs) = {}

\* C20: derive assigns to no object of its input, and the bundle it returns
\* shares no object with the parent, the empty path included.
C20_DeriveSharesNothingWithParent ==
    /\ dvRefs.written \cap RefsOf(ParentRefs) = {}
    /\ dvOut.err = "" => RefsOf(dvRefs.refs) \cap RefsOf(ParentRefs) = {}

\* C20 for paths with at least one index
C20_ChildOfNonEmptyPathSharesNothing ==
    (dvOut.err = "" /\ ~ReturnsParent(dvIn.path))
        => RefsOf(dvRefs.refs) \cap RefsOf(ParentRefs) = {}

(***************************************************************************)
(* Claims about the gate's independence of request order                   *)
(***************************************************************************)

\* t is u in some order: every token occurs in both the same number of times
IsReorderingOf(t, u) ==
    /\ Len(t) = Len(u)
    /\ \A k \in 1..Len(u) :
          Cardinality({i \in 1..Len(t) : t[i] = u[k]}) = Cardinality({i \in 1..Len(u) : u[i] = u[k]})

\* C21: the decision of the gate for a request is the same for every order
\* of the request's assertion list and on every repeated evaluation.
C21_DecisionIndependentOfOrder ==
    [][(/\ gateOut # "none"
        /\ IsReorderingOf(gateReq'.tokens, gateReq.tokens)
        /\ gateReq' = [gateReq EXCEPT !.tokens = gateReq'.tokens])
          => gateOut' = gateOut]_vars

\* an admitted request in which an invalid assertion of a credential comes
\* before the valid one that is needed to reach the threshold
C21_Witness ==
    /\ gateOut = "ok" /\ gateEvals = 2
    /\ Len(gateReq.tokens) = 3
    /\ gateReq.tokens[1] = [pk |-> "ed2", sig |-> BadSig]
    /\ gateReq.tokens[3].pk = "ed2" /\ gateReq.tokens[3].sig.wellFormed
    /\ Cardinality(DistinctValidCredentials(gateReq)) = 2
    /\ MinSignaturesOf(gateReq) = 2

\* C22: no protocol message is sent from a node to itself: no RPC is made
\* whose target node is the calling node.
C22_NoMessageToSelf ==
    \A call \in rpcLog : call[1] # call[2]

(***************************************************************************)
(* Claims about service discovery                                          *)
(***************************************************************************)

\* C23: IsRegistered is true exactly when the service is registered in the
\* backend; a successful Register sets it, a successful Deregister clears it,
\* a failed call leaves it as it was, and Register while registered and
\* Deregister while unregistered make no backend call.
C23_IsRegisteredMatchesBackend ==
    /\ registered <=> ServiceID \in backend
    /\ (regLast.op = "Register" /\ regLast.was) => ~regLast.backendCalled /\ registered
    /\ (regLast.op = "Deregister" /\ ~regLast.was) => ~regLast.backendCalled /\ ~registered
    /\ (regLast.op = "Register" /\ regLast.backendCalled) => (registered <=> ~regLast.err)
    /\ (regLast.op = "Deregister" /\ regLast.backendCalled) => (registered <=> regLast.err)
    /\ (regLast.op = "Close" /\ ~regLast.was) => ~regLast.backendCalled /\ ~registered

\* a Register that failed in the backend, after an earlier successful
\* Register and Deregister
C23_Witness ==
    /\ regLast = [op |-> "Register", was |-> FALSE, backendCalled |-> TRUE, err |-> TRUE]
    /\ regCalls = 3
    /\ ~registered /\ ServiceID \notin backend

RECURSIVE SumOfWeights(_, _)
SumOfWeights(services, i) ==
    IF i > Len(services) THEN 0
    ELSE (IF services[i].Weight <= 0 THEN 1 ELSE services[i].Weight) + SumOfWeights(services, i + 1)

\* how often id occurs among the n entries of seq that start at position from
Occurrences(seq, from, n, id) == Cardinality({k \in from..(from + n - 1) : seq[k] = id})

\* C24: after UpdateServices(S), with W the sum of the weights of S (a
\* weight <= 0 counting as 1), any W consecutive Select calls return each
\* service of S exactly its weight number of times.
C24_WeightedSelectHonoursWeights ==
    LET W == SumOfWeights(wlbServices, 1) IN
    \A from \in 1..Len(wlbSelected) :
        from + W - 1 <= Len(wlbSelected) =>
            \A i \in 1..Len(wlbServices) :
                Occurrences(wlbSelected, from, W, wlbServices[i].ID)
                    = (IF wlbServices[i].Weight <= 0 THEN 1 ELSE wlbServices[i].Weight)

\* two full blocks selected from a list with a weight of 2 and a weight of 0
C24_Witness ==
    /\ wlbServices = <<[ID |-> "s1", Weight |-> 2], [ID |-> "s2", Weight |-> 0]>>
    /\ Len(wlbSelected) = 6

(***************************************************************************)
(* Claims about the threshold the gate applies                             *)
(***************************************************************************)

\* C25: the gate never admits a request that carries no valid assertion,
\* whatever policy record is stored for the key, a record whose
\* min_signatures is 0 or negative included.
C25_NoAdmissionWithoutValidAssertion ==
    gateOut = "ok" => Cardinality(DistinctValidCredentials(gateReq)) >= 1

\* C26: a failed policy lookup never lowers the number required: for a key
\* whose stored policy has min_signatures = m > 1, a request with fewer than
\* m distinct valid assertions is not admitted, also when GetSigningPolicy
\* returns an error.
C26_LookupFailureKeepsThreshold ==
    (gateReq.hasPolicy /\ gateReq.policy > 1
        /\ Cardinality(DistinctValidCredentials(gateReq)) < gateReq.policy)
      => gateOut # "ok"

(***************************************************************************)
(* Claims about the connection maps                                        *)
(***************************************************************************)

\* conns and signerClients have the same key set
SameKeySet == \A n \in ConnNodes : (conns[n] = NilClient) <=> (signerClients[n] = NilClient)

\* at most one connection per node id is open, and it is the one in conns
OneConnectionPerNode ==
    /\ \A c, d \in liveConns : c.nodeID = d.nodeID => c = d
    /\ \A c \in liveConns : conns[c.nodeID] = c.conn

\* no RPC was invoked on a nil client
NoRpcOnNilClient == NilClient \notin rpcClients

\* C27: under any interleaving of concurrent calls on one GRPCClient, conns
\* and signerClients have the same key set, at most one connection per node
\* id is dialled and retained at a time, and no RPC is invoked on a client
\* that is missing from the map (a nil client).
C27_ConnectionMapsConsistent ==
    /\ SameKeySet
    /\ OneConnectionPerNode
    /\ NoRpcOnNilClient

\* the part about the maps and the dialled connections
C27_MapsAndDialsConsistent == SameKeySet /\ OneConnectionPerNode

(***************************************************************************)
(* Claims about the round-robin load balancer                              *)
(***************************************************************************)

\* Select did not index outside its list
SelectStaysInRange == rrLast.op = "Select" => rrLast.result # "panic"

\* C28: for any sequence of UpdateServices and Select calls with lists of
\* any lengths, Select never indexes outside its list, returns nil exactly
\* when the list passed to it is empty, and otherwise returns a member of
\* the list passed to that Select.
C28_SelectInRangeAndFromPassedList ==
    rrLast.op = "Select" =>
        /\ rrLast.result # "panic"
        /\ (rrLast.result = "nil") <=> (rrLast.services = <<>>)
        /\ rrLast.services # <<>> => rrLast.result \in Range(rrLast.services)

\* Select returned a service that is not in the list passed to it
C28_ReturnedFromStaleList ==
    ~(rrLast.op = "Select" /\ rrLast.result \in ServicePool
        /\ rrLast.result \notin Range(rrLast.services))

(***************************************************************************)
(* Claims about Service.Verify                                             *)
(***************************************************************************)

\* C29: Verify reports Valid = true only if the given signature verifies
\* under the given public key for the given message; otherwise it reports
\* Valid = false or returns an error.
C29_ValidOnlyIfSignatureVerifies ==
    (vfOut.called /\ vfOut.err = "" /\ vfOut.Valid) => SigVerifies(vfReq.Signature)

(***************************************************************************)
(* Claims about the protocol of a key                                      *)
(***************************************************************************)

\* the signing service infers the protocol the DKG session recorded
ServiceInfersDkgProtocol == ipSign # "none" => ipSign = ipDkg

\* the wallet handler infers the protocol the DKG session recorded
WalletInfersDkgProtocol == ipWallet # "none" => ipWallet = ipDkg

\* C30: for every algorithm and curve string, in any letter case, and every
\* configured default protocol, the protocol that the signing paths infer
\* for a key equals the protocol that inferProtocolForDKG recorded for the
\* key's DKG session.
C30_SigningProtocolEqualsDkgProtocol ==
    /\ ipSign # "none" => ipSign = ipDkg
    /\ ipWallet # "none" => ipWallet = ipDkg

====
